---- MODULE Spec2Model ----
(***************************************************************************)
(* Buffer access of bevy_impulse (src/src/buffer.rs): the BufferMut write  *)
(* guard, its deferred NotifyBufferUpdate command, the query-scoped and    *)
(* the world-level entry points, and the retention policies of the         *)
(* per-session storage.                                                    *)
(*                                                                         *)
(* Option<T> is a sequence of length at most one: None == <<>>,            *)
(* Some(x) == <<x>>.  A session's stored sequence has the oldest element   *)
(* at index 1 (index 0 of the program) and the newest at Len.              *)
(***************************************************************************)
EXTENDS Integers, Sequences, FiniteSets, TLC

\* ---------------------------------------------------------------- bounds
MaxN == 2
MaxPushes == 3
MaxLen == 2
MaxQueue == 2
MaxCalls == 2
MaxKeys == 3
MaxRequest == 11

\* ------------------------------------------------------------- universes
Buffers == {"b1", "b2"}
Sessions == {"s1", "s2"}
Accessors == {"L1", "L2", "N"}
Values == {1, 2}

None == << >>
Some(x) == << x >>

\* RetentionPolicy: KeepLast(n), KeepFirst(n), KeepAll; the default is KeepLast(1).
KeepLast(n) == [kind |-> "KeepLast", n |-> n]
KeepFirst(n) == [kind |-> "KeepFirst", n |-> n]
KeepAll == [kind |-> "KeepAll", n |-> 0]
RetentionPolicy == {KeepLast(n) : n \in 0..MaxN} \cup {KeepFirst(n) : n \in 0..MaxN} \cup {KeepAll}
RetentionPolicy_default == KeepLast(1)

\* BufferKeyTag: (buffer, session, accessor).
BufferKey(b, s, a) == [buffer |-> b, session |-> s, accessor |-> a]

\* The keys of the notification protocol's specification: the key of listener
\* L1 of b1, and the key of a plain accessor of b2.
ProtoKeys == {BufferKey("b1", "s1", "L1"), BufferKey("b2", "s2", "N")}
\* The key of the storage specification: a plain accessor of b2.
StorageKeys == {BufferKey("b2", "s1", "N")}

\* The listeners wired to each buffer (Builder::listen): two on b1, none on b2.
ListenersOf(b) == IF b = "b1" THEN {"L1", "L2"} ELSE {}

\* ------------------------------------------------- sequence helpers
Front(q) == SubSeq(q, 1, Len(q) - 1)
Last(q) == q[Len(q)]
Min2(a, b) == IF a < b THEN a ELSE b
\* the last n elements of q (all of q when it has fewer)
LastN(q, n) == IF Len(q) <= n THEN q ELSE SubSeq(q, Len(q) - n + 1, Len(q))
\* the first n elements of q (all of q when it has fewer)
FirstN(q, n) == IF Len(q) <= n THEN q ELSE SubSeq(q, 1, n)

\* ------------------------------------------------- BufferStorage<T>
\* One session's container under a retention policy p.  Every operator
\* returns [q |-> the container afterwards, ret |-> the returned Option or
\* sequence].

BufferStorage_push(p, q, v) ==
  CASE p.kind = "KeepAll" -> [q |-> Append(q, v), ret |-> None]
    [] p.kind = "KeepLast" ->
         LET a == Append(q, v)
         IN IF Len(a) > p.n THEN [q |-> Tail(a), ret |-> Some(Head(a))]
            ELSE [q |-> a, ret |-> None]
    [] p.kind = "KeepFirst" ->
         IF Len(q) < p.n THEN [q |-> Append(q, v), ret |-> None]
         ELSE [q |-> q, ret |-> Some(v)]

\* The end that gives way when push_as_oldest meets a full session is not
\* pinned down: `end` ranges over the outcomes the contract allows.
EvictionEnds == {"reject", "newest", "oldest"}
BufferStorage_push_as_oldest(p, q, v, end) ==
  IF p.kind = "KeepAll" \/ Len(q) < p.n THEN [q |-> <<v>> \o q, ret |-> None]
  ELSE IF end = "reject" \/ q = << >> THEN [q |-> q, ret |-> Some(v)]
  ELSE IF end = "newest" THEN [q |-> <<v>> \o Front(q), ret |-> Some(Last(q))]
  ELSE [q |-> <<v>> \o Tail(q), ret |-> Some(Head(q))]

BufferStorage_pull(q) ==
  IF q = << >> THEN [q |-> q, ret |-> None] ELSE [q |-> Tail(q), ret |-> Some(Head(q))]

BufferStorage_pull_newest(q) ==
  IF q = << >> THEN [q |-> q, ret |-> None] ELSE [q |-> Front(q), ret |-> Some(Last(q))]

\* 0-based lookup, oldest first
BufferStorage_get(q, i) == IF i < Len(q) THEN Some(q[i + 1]) ELSE None
BufferStorage_oldest(q) == BufferStorage_get(q, 0)
BufferStorage_newest(q) == IF q = << >> THEN None ELSE Some(Last(q))
BufferStorage_count(q) == Len(q)
BufferStorage_iter(q) == q

\* drain(lo..hi): the elements at the 0-based indices lo <= i < hi that exist
BufferStorage_drain(q, lo, hi) ==
  LET h == Min2(hi, Len(q))
      l == Min2(lo, h)
  IN [q |-> SubSeq(q, 1, l) \o SubSeq(q, h + 1, Len(q)), ret |-> SubSeq(q, l + 1, h)]

\* faulty variant: an empty session is given f() whatever the policy allows
BufferStorage_newest_mut_or_else_unbounded(p, q, fv) ==
  LET q1 == IF q = << >> THEN << fv >> ELSE q
  IN [q |-> q1, ret |-> BufferStorage_newest(q1)]

\* newest_mut_or_else: an empty session is first given f() by a push under the
\* policy; the newest element, if there is one then, is returned.
BufferStorage_newest_mut_or_else(p, q, fv) ==
  LET q1 == IF q = << >> THEN BufferStorage_push(p, q, fv).q ELSE q
  IN [q |-> q1, ret |-> BufferStorage_newest(q1)]

\* a write through a returned &mut T at 0-based index i (w = << >>: no write)
WriteAt(q, i, w) == IF w # << >> /\ 0 <= i /\ i < Len(q) THEN [q EXCEPT ![i + 1] = w[1]] ELSE q


\* ------------------------------------------------------------------ state
VARIABLES
  settings,       \* BufferSettings of each buffer: its RetentionPolicy
  storage,        \* BufferStorage<T>: buffer -> session -> stored sequence
  guard,          \* the live BufferMut, << >> when there is none
  commands,       \* the deferred command queue of the query-scoped systems
  worldActive,    \* World::buffer_mut is between its entry and its return
  worldQ,         \* the command queue of buffer_mut's transient SystemState
  woken,          \* the listeners woken so far
  lastDelivered,  \* the notification applied last and whom it woke
  ret,            \* observation: the last call on an observed session's guard
  released,       \* history: the guard released last and what it enqueued
  hist,           \* history of the observed sessions: the values pushed, ...
  entities,       \* the buffer entities of the World: spawned or not, and their components
  gate,           \* GateState: buffer -> session -> "Open" or "Closed"
  gguard,         \* the live BufferGateMut, << >> when there is none
  result,         \* observation: what the access entry point called last returned
  flow,           \* the workflow of test_buffer_key_gate_control
  keys,           \* the BufferKeys alive: slot -> << >> or << the key's tag >>
  arcs            \* Arc<BufferAccessLifecycle>: handle -> strong count (0: not allocated)

vars == <<settings, storage, guard, commands, worldActive, worldQ, woken, lastDelivered, ret, released, hist, entities, gate, gguard, result, flow, keys, arcs>>
\* the state of the World's entities, the gates, the workflow and the keys
rest == <<entities, gate, gguard, result, flow, keys, arcs>>

NoCall == [op |-> "", arg |-> None, val |-> None]
\* the history of an observed session in which nothing was stored yet
NoHist == [pushed |-> << >>, added |-> 0, removed |-> 0, used |-> 0, cleared |-> FALSE, dropped |-> 0]

\* ---- the entities of the World.  A buffer entity carries the components
\* BufferStorage<T> and GateState; World::get_entity fails once it is despawned,
\* EntityRef::get::<C> and a Query over C fail when component C is absent.
Components == {"BufferStorage", "GateState"}
Spawned == [exists |-> TRUE, comps |-> Components]
HasComponent(b, c) == entities[b].exists /\ c \in entities[b].comps

\* the storage of the buffers before anything is stored
EmptyStorage == [b \in Buffers |-> [s \in Sessions |-> << >>]]
\* Gate: Open or Closed; a gate is open until it is closed
Gate == {"Open", "Closed"}
AllOpen == [b \in Buffers |-> [s \in Sessions |-> "Open"]]

\* Result<_, E> of an access entry point: Ok carries the Option read (or None),
\* Err the error value
NoResult == [entry |-> "", key |-> None, op |-> "", arg |-> None, ok |-> TRUE, err |-> "", val |-> None]
Ok(entry, key, op, arg, val) == [entry |-> entry, key |-> Some(key), op |-> op, arg |-> arg, ok |-> TRUE, err |-> "", val |-> val]
Err(entry, key, e) == [entry |-> entry, key |-> Some(key), op |-> "", arg |-> None, ok |-> FALSE, err |-> e, val |-> None]

\* the workflows of the tests before a request arrives (delay is the value
\* held by the delay node of test_closed_loop_key_access, seen the history of
\* what the runs of its service pulled):
\* pc is where the listener's chain stands, pending the value on its way to
\* the buffer's input slot, out the value sent to scope.terminate (request,
\* runs, pushes and panicked are history: the value requested, the runs of
\* the service, the values pushed into the buffer, a failed unwrap or assert)
NoFlow == [pc |-> "off", request |-> 0, pending |-> None, runs |-> 0, pushes |-> 0, out |-> None, panicked |-> FALSE,
           delay |-> None, seen |-> << >>]

\* ---- the keys alive and the lifecycle handles they hold
KeySlots == 1..MaxKeys
Handles == 1..MaxKeys
NoKeys == [i \in KeySlots |-> << >>]
NoArcs == [h \in Handles |-> 0]

\* The calls of BufferMut that set `modified`, and those that only read.
MutatingOps == {"push", "push_as_oldest", "pull", "pull_newest", "get_mut", "oldest_mut", "newest_mut", "newest_mut_or_else", "newest_mut_or_default", "iter_mut", "drain", "pulse"}
ReadOps == {"iter", "oldest", "newest", "get", "len", "is_empty"}

G == guard[1]
Q == storage[G.buffer][G.session]
P == settings[G.buffer]
Cell == <<G.buffer, G.session>>
Tracked == Cell \in DOMAIN hist
Max2(a, b) == IF a > b THEN a ELSE b
Idx == 0..MaxLen

\* history of an observed session after a call that pushed `pv` (an Option),
\* inserted `ins` elements by other means, removed `rem` elements, and
\* belongs to level `lvl` (0 push, 1 pull/pull_newest/drain, 2 any other)
HistAfter(pv, ins, rem, lvl) ==
  IF Tracked
  THEN [hist EXCEPT ![Cell] = [pushed |-> @.pushed \o pv, added |-> @.added + Len(pv) + ins, removed |-> @.removed + rem, used |-> Max2(@.used, lvl), cleared |-> @.cleared, dropped |-> @.dropped]]
  ELSE hist

\* bound of the model: how long a session may grow / be pushed to
MayInsert ==
  IF Tracked THEN hist[Cell].added < MaxPushes
  ELSE P.kind # "KeepAll" \/ Len(Q) < MaxLen

\* faulty variant: the guard starts with no accessor to exclude
BufferMut_new_unexcluded(key, via) ==
  [buffer |-> key.buffer, session |-> key.session, accessor |-> None, modified |-> FALSE, via |-> via, key |-> key, loops |-> FALSE, calls |-> 0, mcalls |-> 0]

\* BufferMut::new: the guard starts unmodified and excludes the key's accessor.
BufferMut_new(key, via) ==
  [buffer |-> key.buffer, session |-> key.session, accessor |-> Some(key.accessor), modified |-> FALSE, via |-> via, key |-> key, loops |-> FALSE, calls |-> 0, mcalls |-> 0]

\* One call on the live guard: `sets` is the call's `self.modified = true`,
\* r the storage operation's outcome.  The calls of a guard are counted
\* (calls, mcalls: history) where the session is not an observed one, and
\* the call and its result are recorded in ret where it is.
GuardCall(op, arg, r, sets, h) ==
  /\ guard # << >>
  /\ Tracked \/ G.calls < MaxCalls
  /\ guard' = << [G EXCEPT !.modified = (@ \/ sets),
                           !.calls = IF Tracked THEN @ ELSE @ + 1,
                           !.mcalls = IF Tracked \/ op \notin MutatingOps THEN @ ELSE @ + 1] >>
  /\ storage' = [storage EXCEPT ![G.buffer][G.session] = r.q]
  /\ ret' = IF Tracked THEN [op |-> op, arg |-> arg, val |-> r.ret] ELSE NoCall
  /\ hist' = h
  /\ UNCHANGED <<rest, settings, commands, worldActive, worldQ, woken, lastDelivered, released>>

Same(x) == [q |-> Q, ret |-> x]

\* faulty variant: get_mut maps the query's error as the World's entry points do
BufferAccessMut_get_mut_mapped(key) ==
  /\ guard = << >>
  /\ ~worldActive
  /\ Len(commands) < MaxQueue
  /\ IF HasComponent(key.buffer, "BufferStorage")
     THEN guard' = << BufferMut_new(key, "query") >> /\ result' = NoResult /\ released' = << >>
     ELSE guard' = guard /\ result' = Err("BufferAccessMut::get_mut", key, "BufferMissing") /\ released' = released
  /\ ret' = NoCall
  /\ UNCHANGED <<keys, arcs, entities, gate, gguard, flow, settings, storage, commands, worldActive, worldQ, woken, lastDelivered, hist>>

\* faulty variant: the guard is bound to the first session, whatever the key's
BufferAccessMut_get_mut_one_session(key) ==
  /\ guard = << >>
  /\ ~worldActive
  /\ Len(commands) < MaxQueue
  /\ IF HasComponent(key.buffer, "BufferStorage")
     THEN guard' = << [BufferMut_new(key, "query") EXCEPT !.session = "s1"] >> /\ result' = NoResult
     ELSE guard' = guard /\ result' = Err("BufferAccessMut::get_mut", key, "QueryEntityError")
  /\ ret' = NoCall
  /\ released' = << >>
  /\ UNCHANGED <<keys, arcs, entities, gate, gguard, flow, settings, storage, commands, worldActive, worldQ, woken, lastDelivered, hist>>

\* faulty variant: a second guard is handed out while the first is live
BufferAccessMut_get_mut_overlapping(key) ==
  /\ ~worldActive
  /\ Len(commands) < MaxQueue
  /\ IF HasComponent(key.buffer, "BufferStorage")
     THEN guard' = << BufferMut_new(key, "query") >> /\ result' = NoResult /\ released' = << >>
     ELSE guard' = guard /\ result' = Err("BufferAccessMut::get_mut", key, "QueryEntityError") /\ released' = released
  /\ ret' = NoCall
  /\ UNCHANGED <<keys, arcs, entities, gate, gguard, flow, settings, storage, commands, worldActive, worldQ, woken, lastDelivered, hist>>

\* ---- BufferAccessMut::get_mut: a query-scoped system takes a guard, or the
\* query's QueryEntityError when the buffer entity has no BufferStorage<T>
BufferAccessMut_get_mut(key) ==
  /\ guard = << >>
  /\ ~worldActive
  /\ Len(commands) < MaxQueue
  /\ IF HasComponent(key.buffer, "BufferStorage")
     THEN guard' = << BufferMut_new(key, "query") >> /\ result' = NoResult /\ released' = << >>
     ELSE guard' = guard /\ result' = Err("BufferAccessMut::get_mut", key, "QueryEntityError") /\ released' = released
  /\ ret' = NoCall
  /\ UNCHANGED <<keys, arcs, entities, gate, gguard, flow, settings, storage, commands, worldActive, worldQ, woken, lastDelivered, hist>>

\* faulty variant: allow_closed_loops keeps the accessor exclusion
BufferMut_allow_closed_loops_kept ==
  /\ guard # << >>
  /\ ~G.loops
  /\ guard' = << [G EXCEPT !.loops = TRUE] >>
  /\ UNCHANGED <<rest, settings, storage, commands, worldActive, worldQ, woken, lastDelivered, ret, released, hist>>

\* faulty variant: allow_closed_loops counts as a modification
BufferMut_allow_closed_loops_flagging ==
  /\ guard # << >>
  /\ ~G.loops
  /\ guard' = << [G EXCEPT !.accessor = None, !.loops = TRUE, !.modified = TRUE] >>
  /\ UNCHANGED <<rest, settings, storage, commands, worldActive, worldQ, woken, lastDelivered, ret, released, hist>>

\* ---- BufferMut::allow_closed_loops
BufferMut_allow_closed_loops ==
  /\ guard # << >>
  /\ ~G.loops
  /\ guard' = << [G EXCEPT !.accessor = None, !.loops = TRUE] >>
  /\ UNCHANGED <<rest, settings, storage, commands, worldActive, worldQ, woken, lastDelivered, ret, released, hist>>

\* ---- the read calls of BufferMut
BufferMut_iter == GuardCall("iter", None, Same(BufferStorage_iter(Q)), FALSE, hist)
BufferMut_oldest == GuardCall("oldest", None, Same(BufferStorage_oldest(Q)), FALSE, hist)
BufferMut_newest == GuardCall("newest", None, Same(BufferStorage_newest(Q)), FALSE, hist)
BufferMut_get(i) == GuardCall("get", Some(i), Same(BufferStorage_get(Q, i)), FALSE, hist)
BufferMut_len == GuardCall("len", None, Same(Some(BufferStorage_count(Q))), FALSE, hist)
BufferMut_is_empty == GuardCall("is_empty", None, Same(Some(BufferStorage_count(Q) = 0)), FALSE, hist)

\* ---- the mutating calls of BufferMut.  A call that hands out &mut T takes
\* the value w the caller writes through it (<< >>: the caller writes nothing).
BufferMut_iter_mut(f) ==
  GuardCall("iter_mut", None, [q |-> f, ret |-> Q], TRUE, HistAfter(None, 0, 0, 2))

BufferMut_oldest_mut(w) ==
  GuardCall("oldest_mut", None, [q |-> WriteAt(Q, 0, w), ret |-> BufferStorage_oldest(Q)], TRUE, HistAfter(None, 0, 0, 2))

BufferMut_newest_mut(w) ==
  GuardCall("newest_mut", None, [q |-> WriteAt(Q, Len(Q) - 1, w), ret |-> BufferStorage_newest(Q)], TRUE, HistAfter(None, 0, 0, 2))

\* faulty variant: f() is inserted whether or not the session has a newest element
BufferMut_newest_mut_or_else_always(fv) ==
  /\ guard # << >> /\ MayInsert
  /\ LET r == BufferStorage_push(P, Q, fv)
     IN GuardCall("newest_mut_or_else", Some(fv), [q |-> r.q, ret |-> BufferStorage_newest(r.q)], TRUE, HistAfter(None, 1, 0, 2))

BufferMut_newest_mut_or_else(fv) ==
  /\ guard # << >> /\ MayInsert
  /\ LET r == BufferStorage_newest_mut_or_else(P, Q, fv)
     IN GuardCall("newest_mut_or_else", Some(fv), r, TRUE, HistAfter(None, 1, 0, 2))

\* newest_mut_or_default is newest_mut_or_else(|| T::default()); the default of
\* the numeric element types of the tests is 0
T_default == 0
\* the values pushed in the notification protocol's specification
ProtoValues == {T_default}
BufferMut_newest_mut_or_default ==
  /\ guard # << >> /\ MayInsert
  /\ LET r == BufferStorage_newest_mut_or_else(P, Q, T_default)
     IN GuardCall("newest_mut_or_default", None, r, TRUE, HistAfter(None, 1, 0, 2))

\* faulty variant: get_mut counts as a modification only when it finds an element
BufferMut_get_mut_if_found(i, w) ==
  GuardCall("get_mut", Some(i), [q |-> WriteAt(Q, i, w), ret |-> BufferStorage_get(Q, i)], i < Len(Q), HistAfter(None, 0, 0, 2))

BufferMut_get_mut(i, w) ==
  GuardCall("get_mut", Some(i), [q |-> WriteAt(Q, i, w), ret |-> BufferStorage_get(Q, i)], TRUE, HistAfter(None, 0, 0, 2))

\* faulty variant: drain empties the session, whatever the range
BufferMut_drain_all(lo, hi) ==
  /\ guard # << >>
  /\ LET r == BufferStorage_drain(Q, 0, Len(Q))
     IN GuardCall("drain", <<lo, hi>>, r, TRUE, HistAfter(None, 0, Len(r.ret), 1))

BufferMut_drain(lo, hi) ==
  /\ guard # << >>
  /\ LET r == BufferStorage_drain(Q, lo, hi)
     IN GuardCall("drain", <<lo, hi>>, r, TRUE, HistAfter(None, 0, Len(r.ret), 1))

\* faulty variant: pull takes the element from the newest end
BufferMut_pull_from_newest ==
  /\ guard # << >>
  /\ LET r == BufferStorage_pull_newest(Q)
     IN GuardCall("pull", None, r, TRUE, HistAfter(None, 0, Len(r.ret), 1))

BufferMut_pull ==
  /\ guard # << >>
  /\ LET r == BufferStorage_pull(Q)
     IN GuardCall("pull", None, r, TRUE, HistAfter(None, 0, Len(r.ret), 1))

\* faulty variant: pull_newest looks at the newest element without removing it
BufferMut_pull_newest_peek ==
  /\ guard # << >>
  /\ LET r == [q |-> Q, ret |-> BufferStorage_newest(Q)]
     IN GuardCall("pull_newest", None, r, TRUE, HistAfter(None, 0, Len(r.ret), 1))

BufferMut_pull_newest ==
  /\ guard # << >>
  /\ LET r == BufferStorage_pull_newest(Q)
     IN GuardCall("pull_newest", None, r, TRUE, HistAfter(None, 0, Len(r.ret), 1))

\* faulty variant: push hands the value to the storage's push_as_oldest
BufferMut_push_as_if_oldest(v) ==
  /\ guard # << >> /\ MayInsert
  /\ GuardCall("push", Some(v), BufferStorage_push_as_oldest(P, Q, v, "newest"), TRUE, HistAfter(Some(v), 0, 0, 0))

\* faulty variant: push stores into the storage without looking at what comes back
BufferMut_push_unreported(v) ==
  /\ guard # << >> /\ MayInsert
  /\ GuardCall("push", Some(v), [q |-> BufferStorage_push(P, Q, v).q, ret |-> None], TRUE, HistAfter(Some(v), 0, 0, 0))

BufferMut_push(v) ==
  /\ guard # << >> /\ MayInsert
  /\ GuardCall("push", Some(v), BufferStorage_push(P, Q, v), TRUE, HistAfter(Some(v), 0, 0, 0))

\* faulty variant: push_as_oldest hands the value to the storage's push
BufferMut_push_as_oldest_as_newest(v, end) ==
  /\ guard # << >> /\ MayInsert
  /\ GuardCall("push_as_oldest", Some(v), BufferStorage_push(P, Q, v), TRUE, HistAfter(None, 1, 0, 2))

BufferMut_push_as_oldest(v, end) ==
  /\ guard # << >> /\ MayInsert
  /\ GuardCall("push_as_oldest", Some(v), BufferStorage_push_as_oldest(P, Q, v, end), TRUE, HistAfter(None, 1, 0, 2))

\* faulty variant: pulse forgets `self.modified = true`
BufferMut_pulse_unflagged == GuardCall("pulse", None, Same(None), FALSE, hist)

\* faulty variant: pulse empties the session
BufferMut_pulse_clearing == GuardCall("pulse", None, [q |-> << >>, ret |-> None], TRUE, hist)

BufferMut_pulse == GuardCall("pulse", None, Same(None), TRUE, hist)


\* ---- impl Drop for BufferMut: a modified guard adds one NotifyBufferUpdate
\* to the command queue it borrowed
NotifyBufferUpdate_new(buffer, session, accessor) ==
  [buffer |-> buffer, session |-> session, accessor |-> accessor]

\* faulty variant: the delivery wakes every listener, the excluded accessor too
NotifyTargets_all(n) == ListenersOf(n.buffer)

\* the listeners a notification wakes when it is applied: every listener of
\* the buffer, except the excluded accessor
NotifyTargets(n) == ListenersOf(n.buffer) \ {n.accessor[i] : i \in 1..Len(n.accessor)}

\* faulty variant: the notification is added whether or not the guard was modified
DropCommands_always(g) ==
  << [note |-> NotifyBufferUpdate_new(g.buffer, g.session, g.accessor), src |-> g.key.accessor, loops |-> g.loops, by |-> "BufferMut"] >>

\* the commands a released guard g adds (src, loops and by are history: the
\* accessor of the creating key, whether closed loops were allowed, and the
\* kind of guard)
DropCommands(g) ==
  IF g.modified
  THEN << [note |-> NotifyBufferUpdate_new(g.buffer, g.session, g.accessor), src |-> g.key.accessor, loops |-> g.loops, by |-> "BufferMut"] >>
  ELSE << >>

\* faulty variant: the release applies its notification in-line instead of queueing it
BufferMut_drop_inline ==
  /\ guard # << >>
  /\ guard' = << >>
  /\ woken' = woken \cup UNION {NotifyTargets(DropCommands(G)[i].note) : i \in 1..Len(DropCommands(G))}
  /\ lastDelivered' = IF G.modified THEN << [cmd |-> DropCommands(G)[1], woke |-> NotifyTargets(DropCommands(G)[1].note)] >> ELSE lastDelivered
  /\ released' = << [g |-> G, enq |-> 0] >>
  /\ ret' = NoCall
  /\ UNCHANGED <<rest, settings, storage, commands, worldActive, worldQ, hist>>

BufferMut_drop ==
  /\ guard # << >>
  /\ guard' = << >>
  /\ IF G.via = "query"
     THEN commands' = commands \o DropCommands(G) /\ worldQ' = worldQ
     ELSE worldQ' = worldQ \o DropCommands(G) /\ commands' = commands
  /\ released' = << [g |-> G, enq |-> (Len(commands') - Len(commands)) + (Len(worldQ') - Len(worldQ))] >>
  /\ ret' = NoCall
  /\ UNCHANGED <<rest, settings, storage, worldActive, woken, lastDelivered, hist>>

\* ---- NotifyBufferUpdate applied at a flush of the command queue
NotifyBufferUpdate_apply ==
  /\ guard = << >>
  /\ gguard = << >>
  /\ ~worldActive
  /\ commands # << >>
  /\ LET c == Head(commands)
     IN /\ woken' = woken \cup NotifyTargets(c.note)
        /\ lastDelivered' = << [cmd |-> c, woke |-> NotifyTargets(c.note)] >>
  /\ commands' = Tail(commands)
  /\ released' = << >>
  /\ UNCHANGED <<rest, settings, storage, guard, worldActive, worldQ, ret, hist>>

\* ---- World::buffer_mut(key, f): a transient SystemState<BufferAccessMut<T>>
\* with a command queue of its own, the guard handed to f ...
\* faulty variant: the callback is handed a guard whether or not the key resolves
World_buffer_mut_unchecked(key) ==
  /\ guard = << >>
  /\ gguard = << >>
  /\ ~worldActive
  /\ worldActive' = TRUE /\ worldQ' = << >>
  /\ guard' = << BufferMut_new(key, "world") >>
  /\ result' = NoResult
  /\ ret' = NoCall
  /\ released' = << >>
  /\ UNCHANGED <<keys, arcs, entities, gate, gguard, flow, settings, storage, commands, woken, lastDelivered, hist>>

World_buffer_mut(key) ==
  /\ guard = << >>
  /\ gguard = << >>
  /\ ~worldActive
  /\ IF HasComponent(key.buffer, "BufferStorage")
     THEN /\ worldActive' = TRUE /\ worldQ' = << >>
          /\ guard' = << BufferMut_new(key, "world") >>
          /\ result' = NoResult
          /\ released' = << >>
     ELSE \* .map_err(|_| BufferError::BufferMissing)?  -- f is not called
          /\ worldActive' = FALSE /\ worldQ' = worldQ
          /\ guard' = guard
          /\ result' = Err("World::buffer_mut", key, "BufferMissing")
          /\ released' = released
  /\ ret' = NoCall
  /\ UNCHANGED <<keys, arcs, entities, gate, gguard, flow, settings, storage, commands, woken, lastDelivered, hist>>

\* ... and, once f has returned (the guard was released inside f), Ok(..) is
\* returned: `state` goes out of scope and no statement of buffer_mut applies
\* the commands queued in it
World_buffer_mut_return ==
  /\ worldActive
  /\ guard = << >>
  /\ gguard = << >>
  /\ worldActive' = FALSE
  /\ worldQ' = << >>
  /\ released' = << >>
  /\ UNCHANGED <<rest, settings, storage, guard, commands, woken, lastDelivered, ret, hist>>

\* ---- BufferView: the read-only view of one session of a buffer's storage
BufferView(key) == [buffer |-> key.buffer, session |-> key.session]
BufferView_iter(view) == BufferStorage_iter(storage[view.buffer][view.session])
BufferView_oldest(view) == BufferStorage_oldest(storage[view.buffer][view.session])
BufferView_newest(view) == BufferStorage_newest(storage[view.buffer][view.session])
BufferView_get(view, index) == BufferStorage_get(storage[view.buffer][view.session], index)
BufferView_len(view) == BufferStorage_count(storage[view.buffer][view.session])
BufferView_is_empty(view) == BufferView_len(view) = 0

ViewOps == {"iter", "oldest", "newest", "get", "len", "is_empty"}
\* what a call `op` on a view returns, as an Option (iter: the sequence)
ViewCall(view, op, i) ==
  CASE op = "iter" -> BufferView_iter(view)
    [] op = "oldest" -> BufferView_oldest(view)
    [] op = "newest" -> BufferView_newest(view)
    [] op = "get" -> BufferView_get(view, i)
    [] op = "len" -> Some(BufferView_len(view))
    [] op = "is_empty" -> Some(BufferView_is_empty(view))
ViewArg(op, i) == IF op = "get" THEN Some(i) ELSE None

\* an access entry point that takes no guard: it returns r and changes nothing else
Returns(r) ==
  /\ guard = << >>
  /\ gguard = << >>
  /\ ~worldActive
  /\ result' = r
  /\ UNCHANGED <<keys, arcs, entities, gate, gguard, flow, settings, storage, guard, commands, worldActive, worldQ, woken, lastDelivered, ret, released, hist>>

\* faulty variant: the view is bound to the first session, whatever the key's
BufferAccess_get_one_session(key, op, i) ==
  Returns(IF HasComponent(key.buffer, "BufferStorage")
          THEN Ok("BufferAccess::get", key, op, ViewArg(op, i), ViewCall(BufferView(BufferKey(key.buffer, "s1", key.accessor)), op, i))
          ELSE Err("BufferAccess::get", key, "QueryEntityError"))

\* ---- BufferAccess::get / BufferAccessMut::get and one call on the view:
\* access.get(&key).map(|view| view.op(i))
BufferAccess_get(key, op, i) ==
  Returns(IF HasComponent(key.buffer, "BufferStorage")
          THEN Ok("BufferAccess::get", key, op, ViewArg(op, i), ViewCall(BufferView(key), op, i))
          ELSE Err("BufferAccess::get", key, "QueryEntityError"))

\* faulty variant: get_newest hands the error on instead of None
BufferAccess_get_newest_strict(key) ==
  Returns(IF HasComponent(key.buffer, "BufferStorage")
          THEN Ok("BufferAccess::get_newest", key, "newest", None, BufferView_newest(BufferView(key)))
          ELSE Err("BufferAccess::get_newest", key, "QueryEntityError"))

\* ---- BufferAccess::get_newest: self.get(key).ok().map(|view| view.newest()).flatten()
BufferAccess_get_newest(key) ==
  Returns(IF HasComponent(key.buffer, "BufferStorage")
          THEN Ok("BufferAccess::get_newest", key, "newest", None, BufferView_newest(BufferView(key)))
          ELSE Ok("BufferAccess::get_newest", key, "newest", None, None))

\* ---- World::buffer_view and one call on the view
World_buffer_view(key, op, i) ==
  Returns(IF ~entities[key.buffer].exists THEN Err("World::buffer_view", key, "BufferMissing")
          ELSE IF "BufferStorage" \notin entities[key.buffer].comps THEN Err("World::buffer_view", key, "BufferMissing")
          ELSE Ok("World::buffer_view", key, op, ViewArg(op, i), ViewCall(BufferView(key), op, i)))

\* BufferGateView { gate, session }: get() is the gate of the view's session
BufferGateView(key) == [buffer |-> key.buffer, session |-> key.session]
BufferGateView_get(view) == gate[view.buffer][view.session]

\* faulty variant: the gate view is bound to the second session, whatever the key's
World_buffer_gate_view_other_session(key) ==
  Returns(IF ~entities[key.buffer].exists THEN Err("World::buffer_gate_view", key, "BufferMissing")
          ELSE IF "GateState" \notin entities[key.buffer].comps THEN Err("World::buffer_gate_view", key, "BufferMissing")
          ELSE Ok("World::buffer_gate_view", key, "get", None, Some(BufferGateView_get(BufferGateView(BufferKey(key.buffer, "s2", key.accessor))))))

\* ---- World::buffer_gate_view and get() on the view
World_buffer_gate_view(key) ==
  Returns(IF ~entities[key.buffer].exists THEN Err("World::buffer_gate_view", key, "BufferMissing")
          ELSE IF "GateState" \notin entities[key.buffer].comps THEN Err("World::buffer_gate_view", key, "BufferMissing")
          ELSE Ok("World::buffer_gate_view", key, "get", None, Some(BufferGateView_get(BufferGateView(key)))))

\* ---- BufferGateMut: the write guard of the gate of one session of a buffer.
\* Like BufferMut it carries the key's buffer, session and accessor, and a
\* modified flag (key, opened, closed and reopened are history: the creating
\* key, the calls made, and whether an open_gate met a closed gate).
BufferGateMut_new(key) ==
  [buffer |-> key.buffer, session |-> key.session, accessor |-> Some(key.accessor), modified |-> FALSE, key |-> key, opened |-> 0, closed |-> 0, reopened |-> FALSE]

GG == gguard[1]

\* BufferGateAccessMut::get_mut: a query-scoped system takes a gate guard; the
\* key resolves against the GateState component as a typed key does against
\* BufferStorage<T>
BufferGateAccessMut_get_mut(key) ==
  /\ gguard = << >>
  /\ ~worldActive
  /\ Len(commands) < MaxQueue
  /\ IF HasComponent(key.buffer, "GateState")
     THEN gguard' = << BufferGateMut_new(key) >> /\ result' = NoResult
     ELSE gguard' = gguard /\ result' = Err("BufferGateAccessMut::get_mut", key, "QueryEntityError")
  /\ UNCHANGED <<keys, arcs, entities, gate, flow, settings, storage, guard, commands, worldActive, worldQ, woken, lastDelivered, ret, released, hist>>

\* BufferGateMut::get
BufferGateMut_get ==
  /\ gguard # << >>
  /\ result' = Ok("BufferGateMut::get", GG.key, "get", None, Some(gate[GG.buffer][GG.session]))
  /\ UNCHANGED <<keys, arcs, entities, gate, gguard, flow, settings, storage, guard, commands, worldActive, worldQ, woken, lastDelivered, ret, released, hist>>

\* faulty variant: opening the gate is not taken for a modification
BufferGateMut_open_gate_silent ==
  /\ gguard # << >>
  /\ GG.opened < MaxCalls
  /\ gate' = [gate EXCEPT ![GG.buffer][GG.session] = "Open"]
  /\ gguard' = << [GG EXCEPT !.opened = @ + 1, !.reopened = (@ \/ gate[GG.buffer][GG.session] = "Closed")] >>
  /\ result' = NoResult
  /\ UNCHANGED <<keys, arcs, entities, flow, settings, storage, guard, commands, worldActive, worldQ, woken, lastDelivered, ret, released, hist>>

\* BufferGateMut::open_gate: the gate of the session is Open afterwards; opening
\* a closed gate is a modification that "would normally trigger a notice"
\* (gate_access_test_open_loop)
BufferGateMut_open_gate ==
  /\ gguard # << >>
  /\ GG.opened < MaxCalls
  /\ gate' = [gate EXCEPT ![GG.buffer][GG.session] = "Open"]
  /\ gguard' = << [GG EXCEPT !.modified = (@ \/ gate[GG.buffer][GG.session] = "Closed"), !.opened = @ + 1,
                            !.reopened = (@ \/ gate[GG.buffer][GG.session] = "Closed")] >>
  /\ result' = NoResult
  /\ UNCHANGED <<keys, arcs, entities, flow, settings, storage, guard, commands, worldActive, worldQ, woken, lastDelivered, ret, released, hist>>

\* BufferGateMut::close_gate: the gate of the session is Closed afterwards;
\* listeners are not told of a gate closing
BufferGateMut_close_gate ==
  /\ gguard # << >>
  /\ GG.closed < MaxCalls
  /\ gate' = [gate EXCEPT ![GG.buffer][GG.session] = "Closed"]
  /\ gguard' = << [GG EXCEPT !.closed = @ + 1] >>
  /\ result' = NoResult
  /\ UNCHANGED <<keys, arcs, entities, flow, settings, storage, guard, commands, worldActive, worldQ, woken, lastDelivered, ret, released, hist>>

\* the commands a released gate guard adds
GateDropCommands(g) ==
  IF g.modified
  THEN << [note |-> NotifyBufferUpdate_new(g.buffer, g.session, g.accessor), src |-> g.key.accessor, loops |-> FALSE, by |-> "BufferGateMut"] >>
  ELSE << >>

\* the release of the gate guard
BufferGateMut_drop ==
  /\ gguard # << >>
  /\ gguard' = << >>
  /\ commands' = commands \o GateDropCommands(GG)
  /\ result' = NoResult
  /\ UNCHANGED <<keys, arcs, entities, gate, flow, settings, storage, guard, worldActive, worldQ, woken, lastDelivered, ret, released, hist>>

GateOps == {"get", "open_gate", "close_gate"}
\* the gate of a session after the callback's call
GateAfter(g, f) == IF f = "open_gate" THEN "Open" ELSE IF f = "close_gate" THEN "Closed" ELSE g

\* faulty variant: the callback is run on the gate whether or not the key resolves
World_buffer_gate_mut_unchecked(key, f) ==
  /\ guard = << >> /\ gguard = << >> /\ ~worldActive
  /\ gate' = [gate EXCEPT ![key.buffer][key.session] = GateAfter(@, f)]
  /\ result' = Ok("World::buffer_gate_mut", key, f, None, Some(gate'[key.buffer][key.session]))
  /\ UNCHANGED <<keys, arcs, entities, gguard, flow, settings, storage, guard, commands, worldActive, worldQ, woken, lastDelivered, ret, released, hist>>

\* ---- World::buffer_gate_mut(key, f) with a callback f that makes one call
\* on the gate guard and returns the gate: a transient
\* SystemState<BufferGateAccessMut>, whose queued commands no statement applies
World_buffer_gate_mut(key, f) ==
  /\ guard = << >> /\ gguard = << >> /\ ~worldActive
  /\ IF HasComponent(key.buffer, "GateState")
     THEN /\ gate' = [gate EXCEPT ![key.buffer][key.session] = GateAfter(@, f)]
          /\ result' = Ok("World::buffer_gate_mut", key, f, None, Some(gate'[key.buffer][key.session]))
     ELSE /\ gate' = gate
          /\ result' = Err("World::buffer_gate_mut", key, "BufferMissing")
  /\ UNCHANGED <<keys, arcs, entities, gguard, flow, settings, storage, guard, commands, worldActive, worldQ, woken, lastDelivered, ret, released, hist>>

\* ---- the World outside the buffers' code: a buffer entity is despawned, or
\* loses one of its components; what the components held goes with them
World_despawn(b) ==
  /\ guard = << >> /\ gguard = << >> /\ ~worldActive
  /\ entities[b].exists
  /\ entities' = [entities EXCEPT ![b] = [exists |-> FALSE, comps |-> {}]]
  /\ storage' = [storage EXCEPT ![b] = EmptyStorage[b]]
  /\ gate' = [gate EXCEPT ![b] = AllOpen[b]]
  /\ result' = NoResult
  /\ UNCHANGED <<keys, arcs, gguard, flow, settings, guard, commands, worldActive, worldQ, woken, lastDelivered, ret, released, hist>>

World_remove(b, c) ==
  /\ guard = << >> /\ gguard = << >> /\ ~worldActive
  /\ HasComponent(b, c)
  /\ entities' = [entities EXCEPT ![b].comps = @ \ {c}]
  /\ storage' = IF c = "BufferStorage" THEN [storage EXCEPT ![b] = EmptyStorage[b]] ELSE storage
  /\ gate' = IF c = "GateState" THEN [gate EXCEPT ![b] = AllOpen[b]] ELSE gate
  /\ result' = NoResult
  /\ UNCHANGED <<keys, arcs, gguard, flow, settings, guard, commands, worldActive, worldQ, woken, lastDelivered, ret, released, hist>>

\* ---- the session manager's clear of one session of a buffer: the session
\* is as it was before anything was stored (the history of an observed session
\* starts anew, remembering the clear and how many elements it dropped)
BufferStorage_clear_session(b, s) ==
  /\ guard = << >> /\ gguard = << >> /\ ~worldActive
  /\ storage' = [storage EXCEPT ![b][s] = << >>]
  /\ hist' = [c \in DOMAIN hist |-> IF c = <<b, s>> THEN [NoHist EXCEPT !.cleared = TRUE, !.dropped = Len(storage[b][s])] ELSE hist[c]]
  /\ result' = [NoResult EXCEPT !.entry = "clear_session", !.key = Some(BufferKey(b, s, "N"))]
  /\ ret' = NoCall
  /\ UNCHANGED <<keys, arcs, entities, gate, gguard, flow, settings, guard, commands, worldActive, worldQ, woken, lastDelivered, released>>

\* ------------------------------------------------------------ specifications

InitCommon ==
  /\ storage = EmptyStorage
  /\ guard = << >>
  /\ commands = << >>
  /\ worldActive = FALSE
  /\ worldQ = << >>
  /\ woken = {}
  /\ lastDelivered = << >>
  /\ ret = NoCall
  /\ released = << >>
  /\ entities = [b \in Buffers |-> Spawned]
  /\ gate = AllOpen
  /\ gguard = << >>
  /\ result = NoResult
  /\ flow = NoFlow
  /\ keys = NoKeys
  /\ arcs = NoArcs

\* the calls a holder of the guard may make, with values from V: the reads,
\* the calls that hand out &mut T, and the calls that add or remove elements
ReadCalls ==
  \/ BufferMut_iter
  \/ BufferMut_oldest
  \/ BufferMut_newest
  \/ \E i \in Idx : BufferMut_get(i)
  \/ BufferMut_len
  \/ BufferMut_is_empty

BorrowCalls(V) ==
  \/ guard # << >> /\ \E f \in [1..Len(Q) -> V] : BufferMut_iter_mut(f)
  \/ \E w \in {None} \cup {Some(v) : v \in V} : BufferMut_oldest_mut(w)
  \/ \E w \in {None} \cup {Some(v) : v \in V} : BufferMut_newest_mut(w)
  \/ \E i \in Idx, w \in {None} \cup {Some(v) : v \in V} : BufferMut_get_mut(i, w)
  \/ BufferMut_newest_mut_or_default

QueueCalls(V) ==
  \/ \E v \in V : BufferMut_newest_mut_or_else(v)
  \/ \E lo \in Idx, hi \in Idx : lo <= hi /\ BufferMut_drain(lo, hi)
  \/ BufferMut_pull
  \/ BufferMut_pull_newest
  \/ \E v \in V : BufferMut_push(v)
  \/ \E v \in V, end \in EvictionEnds : BufferMut_push_as_oldest(v, end)
  \/ BufferMut_pulse

\* The notification protocol: guards from the query-scoped and the world-level
\* entry points, on two buffers with listeners.
Init ==
  /\ InitCommon
  /\ settings = [b \in Buffers |-> RetentionPolicy_default]
  /\ hist = << >>

Next ==
  \/ \E key \in ProtoKeys : BufferAccessMut_get_mut(key)
  \/ \E key \in ProtoKeys : World_buffer_mut(key)
  \/ World_buffer_mut_return
  \/ BufferMut_allow_closed_loops
  \/ ReadCalls
  \/ BorrowCalls(ProtoValues)
  \/ QueueCalls(ProtoValues)
  \/ BufferMut_drop
  \/ NotifyBufferUpdate_apply

Spec == Init /\ [][Next]_vars

\* The storage: every retention policy, one session observed with its history;
\* a guard is taken once the notifications queued before have been applied.
InitStorage ==
  /\ InitCommon
  /\ \E p \in RetentionPolicy : settings = [b \in Buffers |-> p]
  /\ hist = [c \in {<<k.buffer, k.session>> : k \in StorageKeys} |-> NoHist]

NextStorage ==
  \/ \E key \in StorageKeys : commands = << >> /\ BufferAccessMut_get_mut(key)
  \/ QueueCalls(Values)
  \/ BufferMut_newest_mut_or_default
  \/ BufferMut_drop
  \/ NotifyBufferUpdate_apply

SpecStorage == InitStorage /\ [][NextStorage]_vars

\* Two sessions of one buffer, the second observed with its history; the
\* values a session's key pushes are that session's own.
SessionKeys == {BufferKey("b2", "s1", "N"), BufferKey("b2", "s2", "N")}
ValuesOf(s) == IF s = "s1" THEN {1} ELSE {2}

InitSessions ==
  /\ InitCommon
  /\ \E p \in {KeepAll, KeepLast(1)} : settings = [b \in Buffers |-> p]
  /\ hist = [c \in {<<"b2", "s2">>} |-> NoHist]

NextSessions ==
  \/ \E key \in SessionKeys : commands = << >> /\ BufferAccessMut_get_mut(key)
  \/ guard # << >> /\ \E v \in ValuesOf(G.key.session) : BufferMut_push(v)
  \/ BufferMut_pull
  \/ BufferMut_pull_newest
  \/ \E lo \in Idx, hi \in Idx : lo <= hi /\ BufferMut_drain(lo, hi)
  \/ ReadCalls
  \/ BufferMut_drop
  \/ NotifyBufferUpdate_apply
  \/ \E key \in SessionKeys, op \in ViewOps, i \in Idx : commands = << >> /\ (op = "get" \/ i = 0) /\ BufferAccess_get(key, op, i)
  \/ \E key \in SessionKeys : commands = << >> /\ BufferStorage_clear_session(key.buffer, key.session)

SpecSessions == InitSessions /\ [][NextSessions]_vars

\* ---- test_buffer_key_gate_control: a KeepAll buffer fed by scope.input and by
\* the service's first output; listen(buffer).then_gate_close(buffer)
\* .then(service); the service's second output goes to scope.terminate.
LoopBound == 5
LoopKey == BufferKey("b1", "s1", "L1")
\* the key of the node that feeds the buffer's input slot
InputKey == BufferKey("b1", "s1", "N")

\* buffer.input_slot(): the value on its way is pushed into the buffer, and the
\* listeners hear of it as of any other mutation
InputSlot_push ==
  /\ flow.pending # None
  /\ guard = << >> /\ gguard = << >>
  /\ LET g == [BufferMut_new(InputKey, "query") EXCEPT !.modified = TRUE]
         r == BufferStorage_push(settings[g.buffer], storage[g.buffer][g.session], flow.pending[1])
     IN /\ storage' = [storage EXCEPT ![g.buffer][g.session] = r.q]
        /\ commands' = commands \o DropCommands(g)
  /\ flow' = [flow EXCEPT !.pending = None, !.pushes = @ + 1]
  /\ UNCHANGED <<keys, arcs, entities, gate, gguard, result, settings, guard, worldActive, worldQ, woken, lastDelivered, ret, released, hist>>

\* listen(buffer).then_gate_close(buffer): the woken listener's chain closes
\* the gate and hands the key to the service
Listen_then_gate_close ==
  /\ flow.pc = "idle"
  /\ LoopKey.accessor \in woken
  /\ guard = << >> /\ gguard = << >>
  /\ woken' = woken \ {LoopKey.accessor}
  /\ gate' = [gate EXCEPT ![LoopKey.buffer][LoopKey.session] = "Closed"]
  /\ flow' = [flow EXCEPT !.pc = "service"]
  /\ UNCHANGED <<keys, arcs, entities, gguard, result, settings, storage, guard, commands, worldActive, worldQ, lastDelivered, ret, released, hist>>

\* gate_access_test_open_loop: one run of the blocking service.
\*   let mut buffer = access.get_mut(&key).unwrap();
\*   let value = buffer.pull().unwrap();
\*   let mut gate = gate_access.get_mut(key).unwrap();
\*   assert_eq!(gate.get(), Gate::Closed);
\*   gate.open_gate();
\*   if value >= 5 { (None, Some(value)) } else { (Some(value + 1), None) }
\* `gate` is released first, then `buffer`.
gate_access_test_open_loop ==
  /\ flow.pc = "service"
  /\ guard = << >> /\ gguard = << >>
  /\ LET cell == storage[LoopKey.buffer][LoopKey.session]
         r == BufferStorage_pull(cell)
         buffer == [BufferMut_new(LoopKey, "query") EXCEPT !.modified = TRUE]
         wasClosed == gate[LoopKey.buffer][LoopKey.session] = "Closed"
         gateG == [BufferGateMut_new(LoopKey) EXCEPT !.modified = wasClosed, !.reopened = wasClosed]
     IN IF r.ret = None
        THEN \* unwrap() of None: the service panics with `buffer` live and modified
             /\ flow' = [flow EXCEPT !.pc = "done", !.panicked = TRUE, !.runs = @ + 1]
             /\ commands' = commands \o DropCommands(buffer)
             /\ UNCHANGED <<storage, gate>>
        ELSE /\ storage' = [storage EXCEPT ![LoopKey.buffer][LoopKey.session] = r.q]
             /\ gate' = [gate EXCEPT ![LoopKey.buffer][LoopKey.session] = "Open"]
             /\ commands' = commands \o GateDropCommands(gateG) \o DropCommands(buffer)
             /\ flow' = IF ~wasClosed THEN [flow EXCEPT !.pc = "done", !.panicked = TRUE, !.runs = @ + 1]
                        ELSE IF r.ret[1] >= LoopBound
                        THEN [flow EXCEPT !.pc = "done", !.out = r.ret, !.runs = @ + 1]
                        ELSE [flow EXCEPT !.pc = "idle", !.pending = Some(r.ret[1] + 1), !.runs = @ + 1]
  /\ UNCHANGED <<keys, arcs, entities, gguard, result, settings, guard, worldActive, worldQ, woken, lastDelivered, ret, released, hist>>

InitGateLoop ==
  /\ storage = EmptyStorage
  /\ guard = << >>
  /\ commands = << >>
  /\ worldActive = FALSE
  /\ worldQ = << >>
  /\ woken = {}
  /\ lastDelivered = << >>
  /\ ret = NoCall
  /\ released = << >>
  /\ entities = [b \in Buffers |-> Spawned]
  /\ gate = AllOpen
  /\ gguard = << >>
  /\ result = NoResult
  /\ settings = [b \in Buffers |-> KeepAll]
  /\ hist = << >>
  /\ keys = NoKeys
  /\ arcs = NoArcs
  /\ \E v \in 0..LoopBound : flow = [NoFlow EXCEPT !.pc = "idle", !.request = v, !.pending = Some(v)]

NextGateLoop ==
  \/ InputSlot_push
  \/ NotifyBufferUpdate_apply
  \/ Listen_then_gate_close
  \/ gate_access_test_open_loop

\* the schedule runs the workflow until its promise is delivered
SpecGateLoop == InitGateLoop /\ [][NextGateLoop]_vars /\ WF_vars(NextGateLoop)

\* ---- test_closed_loop_key_access: a KeepAll buffer fed by scope.input and,
\* through a delay of 0.1 s, by the service's first output;
\* listen(buffer).then(service); the service's second output goes to
\* scope.terminate.

\* listen(buffer).then(service): the woken listener's chain hands the key to
\* the service
Listen_then ==
  /\ flow.pc = "idle"
  /\ LoopKey.accessor \in woken
  /\ guard = << >> /\ gguard = << >>
  /\ woken' = woken \ {LoopKey.accessor}
  /\ flow' = [flow EXCEPT !.pc = "service"]
  /\ UNCHANGED <<keys, arcs, entities, gate, gguard, result, settings, storage, guard, commands, worldActive, worldQ, lastDelivered, ret, released, hist>>

\* faulty variant: the service takes its guard without allow_closed_loops
gate_access_test_closed_loop_excluded ==
  /\ flow.pc = "service"
  /\ guard = << >> /\ gguard = << >>
  /\ LET r == BufferStorage_pull(storage[LoopKey.buffer][LoopKey.session])
         buffer == [BufferMut_new(LoopKey, "query") EXCEPT !.modified = TRUE]
     IN /\ storage' = [storage EXCEPT ![LoopKey.buffer][LoopKey.session] = r.q]
        /\ commands' = commands \o DropCommands(buffer)
        /\ flow' = IF r.ret # None
                   THEN [flow EXCEPT !.pc = "idle", !.delay = Some(r.ret[1] + 1), !.runs = @ + 1, !.seen = Append(@, r.ret)]
                   ELSE [flow EXCEPT !.pc = "done", !.out = Some(0), !.runs = @ + 1, !.seen = Append(@, r.ret)]
  /\ UNCHANGED <<keys, arcs, entities, gate, gguard, result, settings, guard, worldActive, worldQ, woken, lastDelivered, ret, released, hist>>

\* gate_access_test_closed_loop: one run of the blocking service.
\*   let mut buffer = access.get_mut(&key).unwrap().allow_closed_loops();
\*   if let Some(value) = buffer.pull() { (Some(value + 1), None) }
\*   else { (None, Some(0)) }
\* The first output enters the delay node, the second terminates the scope.
gate_access_test_closed_loop ==
  /\ flow.pc = "service"
  /\ guard = << >> /\ gguard = << >>
  /\ LET r == BufferStorage_pull(storage[LoopKey.buffer][LoopKey.session])
         buffer == [BufferMut_new(LoopKey, "query") EXCEPT !.accessor = None, !.loops = TRUE, !.modified = TRUE]
     IN /\ storage' = [storage EXCEPT ![LoopKey.buffer][LoopKey.session] = r.q]
        /\ commands' = commands \o DropCommands(buffer)
        /\ flow' = IF r.ret # None
                   THEN [flow EXCEPT !.pc = "idle", !.delay = Some(r.ret[1] + 1), !.runs = @ + 1, !.seen = Append(@, r.ret)]
                   ELSE [flow EXCEPT !.pc = "done", !.out = Some(0), !.runs = @ + 1, !.seen = Append(@, r.ret)]
  /\ UNCHANGED <<keys, arcs, entities, gate, gguard, result, settings, guard, worldActive, worldQ, woken, lastDelivered, ret, released, hist>>

\* the delay node: its 0.1 s pass once the engine has nothing left to do in
\* the current flush (no command queued, no listener woken, no service
\* running, no value on its way); the value then goes to the buffer's input
\* slot, unless the scope has terminated and the session is gone
Delay_elapsed ==
  /\ flow.delay # None
  /\ \/ flow.pc = "done"
     \/ flow.pc = "idle" /\ LoopKey.accessor \notin woken
  /\ flow.pending = None
  /\ commands = << >>
  /\ guard = << >> /\ gguard = << >>
  /\ flow' = IF flow.pc = "done" THEN [flow EXCEPT !.delay = None]
             ELSE [flow EXCEPT !.delay = None, !.pending = flow.delay]
  /\ UNCHANGED <<keys, arcs, entities, gate, gguard, result, settings, storage, guard, commands, worldActive, worldQ, woken, lastDelivered, ret, released, hist>>

InitClosedLoop ==
  /\ storage = EmptyStorage
  /\ guard = << >>
  /\ commands = << >>
  /\ worldActive = FALSE
  /\ worldQ = << >>
  /\ woken = {}
  /\ lastDelivered = << >>
  /\ ret = NoCall
  /\ released = << >>
  /\ entities = [b \in Buffers |-> Spawned]
  /\ gate = AllOpen
  /\ gguard = << >>
  /\ result = NoResult
  /\ settings = [b \in Buffers |-> KeepAll]
  /\ hist = << >>
  /\ keys = NoKeys
  /\ arcs = NoArcs
  /\ \E v \in 0..MaxRequest : flow = [NoFlow EXCEPT !.pc = "idle", !.request = v, !.pending = Some(v)]

NextClosedLoop ==
  \/ InputSlot_push
  \/ NotifyBufferUpdate_apply
  \/ Listen_then
  \/ gate_access_test_closed_loop
  \/ Delay_elapsed

\* the schedule runs the workflow until its promise is delivered
SpecClosedLoop == InitClosedLoop /\ [][NextClosedLoop]_vars /\ WF_vars(NextClosedLoop)

\* The calls that hand out &mut T or take elements away, on one observed
\* session that is pushed to as well.
InitBorrow ==
  /\ InitCommon
  /\ \E p \in {KeepAll, KeepLast(1)} : settings = [b \in Buffers |-> p]
  /\ hist = [c \in {<<k.buffer, k.session>> : k \in StorageKeys} |-> NoHist]

NextBorrow ==
  \/ \E key \in StorageKeys : commands = << >> /\ BufferAccessMut_get_mut(key)
  \/ \E v \in Values : BufferMut_push(v)
  \/ BufferMut_pull
  \/ BufferMut_pull_newest
  \/ \E lo \in Idx, hi \in Idx : lo <= hi /\ BufferMut_drain(lo, hi)
  \/ guard # << >> /\ \E f \in [1..Len(Q) -> Values] : BufferMut_iter_mut(f)
  \/ \E w \in {None} \cup {Some(v) : v \in Values} : BufferMut_oldest_mut(w)
  \/ \E w \in {None} \cup {Some(v) : v \in Values} : BufferMut_newest_mut(w)
  \/ \E i \in Idx, w \in {None} \cup {Some(v) : v \in Values} : BufferMut_get_mut(i, w)
  \/ BufferMut_drop
  \/ NotifyBufferUpdate_apply

SpecBorrow == InitBorrow /\ [][NextBorrow]_vars

\* ---- BufferKey / BufferKeyTag: (buffer, session, accessor, lifecycle), the
\* lifecycle an Option<Arc<BufferAccessLifecycle>> (how and family are
\* history: the call that made the key, and the created or deep-cloned key it
\* descends from by plain clones, named by the handle that key was made with,
\* 0 when it was made without one)
Live == {i \in KeySlots : keys[i] # << >>}
Tag(i) == keys[i][1]
\* the lowest free slot and handle
FreeSlot == CHOOSE i \in KeySlots : keys[i] = << >> /\ \A j \in KeySlots : keys[j] = << >> => i <= j
FreeHandle == CHOOSE h \in Handles : arcs[h] = 0 /\ \A g \in Handles : arcs[g] = 0 => h <= g
\* BufferAccessLifecycle::is_in_use: the handle reports outstanding references
BufferAccessLifecycle_is_in_use(h) == arcs[h] > 0
\* BufferKeyTag::is_in_use: self.lifecycle.as_ref().is_some_and(|l| l.is_in_use())
BufferKeyTag_is_in_use(tag) == tag.lifecycle # None /\ BufferAccessLifecycle_is_in_use(tag.lifecycle[1])

\* Arc::clone and the drop of an Arc, on an Option<Arc<_>>
ArcClone(l) == IF l = None THEN arcs ELSE [arcs EXCEPT ![l[1]] = @ + 1]
ArcDrop(l) == IF l = None THEN arcs ELSE [arcs EXCEPT ![l[1]] = @ - 1]

\* BufferKeyBuilder::make_tag: the tag of a new key, with the live lifecycle
\* handle when the builder tracks the key's use
BufferKeyBuilder_make_tag(buffer, session, accessor, tracked) ==
  [buffer |-> buffer, session |-> session, accessor |-> accessor,
   lifecycle |-> IF tracked THEN Some(FreeHandle) ELSE None,
   how |-> "create_key", family |-> IF tracked THEN FreeHandle ELSE 0]

\* BufferKey::create_key
BufferKey_create_key(buffer, session, accessor, tracked) ==
  /\ \E i \in KeySlots : keys[i] = << >>
  /\ LET tag == BufferKeyBuilder_make_tag(buffer, session, accessor, tracked)
     IN /\ keys' = [keys EXCEPT ![FreeSlot] = << tag >>]
        /\ arcs' = IF tracked THEN [arcs EXCEPT ![FreeHandle] = 1] ELSE arcs
  /\ UNCHANGED <<entities, gate, gguard, result, flow, settings, storage, guard, commands, worldActive, worldQ, woken, lastDelivered, ret, released, hist>>

\* #[derive(Clone)] of BufferKeyTag: every field is cloned, the Arc with it
BufferKeyTag_clone(tag) == [tag EXCEPT !.how = "clone"]

\* faulty variant: the clone of a key is given a lifecycle handle of its own
BufferKey_clone_detached(i) ==
  /\ keys[i] # << >>
  /\ \E j \in KeySlots : keys[j] = << >>
  /\ keys' = [keys EXCEPT ![FreeSlot] = << [BufferKeyTag_clone(Tag(i)) EXCEPT !.lifecycle = IF @ = None THEN None ELSE Some(FreeHandle)] >>]
  /\ arcs' = IF Tag(i).lifecycle = None THEN arcs ELSE [arcs EXCEPT ![FreeHandle] = 1]
  /\ UNCHANGED <<entities, gate, gguard, result, flow, settings, storage, guard, commands, worldActive, worldQ, woken, lastDelivered, ret, released, hist>>

\* impl Clone for BufferKey: Self { tag: self.tag.clone(), .. }
BufferKey_clone(i) ==
  /\ keys[i] # << >>
  /\ \E j \in KeySlots : keys[j] = << >>
  /\ keys' = [keys EXCEPT ![FreeSlot] = << BufferKeyTag_clone(Tag(i)) >>]
  /\ arcs' = ArcClone(Tag(i).lifecycle)
  /\ UNCHANGED <<entities, gate, gguard, result, flow, settings, storage, guard, commands, worldActive, worldQ, woken, lastDelivered, ret, released, hist>>

\* faulty variant: the deep clone of a key without a handle is given one
BufferKeyTag_deep_clone_always(tag) ==
  [tag EXCEPT !.lifecycle = Some(FreeHandle), !.how = "deep_clone", !.family = FreeHandle]

\* BufferKeyTag::deep_clone: let mut deep = self.clone();
\* deep.lifecycle = self.lifecycle.as_ref().map(|l| Arc::new(l.as_ref().clone()))
BufferKeyTag_deep_clone(tag) ==
  [tag EXCEPT !.lifecycle = IF @ = None THEN None ELSE Some(FreeHandle), !.how = "deep_clone", !.family = IF tag.lifecycle = None THEN 0 ELSE FreeHandle]

\* BufferKey::deep_clone: Self { tag: self.tag.deep_clone(), .. }
BufferKey_deep_clone(i) ==
  /\ keys[i] # << >>
  /\ \E j \in KeySlots : keys[j] = << >>
  /\ LET deep == BufferKeyTag_deep_clone(Tag(i))
     IN /\ keys' = [keys EXCEPT ![FreeSlot] = << deep >>]
        /\ arcs' = IF deep.lifecycle = None THEN arcs ELSE [arcs EXCEPT ![deep.lifecycle[1]] = 1]
  /\ UNCHANGED <<entities, gate, gguard, result, flow, settings, storage, guard, commands, worldActive, worldQ, woken, lastDelivered, ret, released, hist>>

\* a key goes out of scope: its Arc, if it has one, is dropped
BufferKey_drop(i) ==
  /\ keys[i] # << >>
  /\ keys' = [keys EXCEPT ![i] = << >>]
  /\ arcs' = ArcDrop(Tag(i).lifecycle)
  /\ UNCHANGED <<entities, gate, gguard, result, flow, settings, storage, guard, commands, worldActive, worldQ, woken, lastDelivered, ret, released, hist>>

\* A key of b1, made for one of its listeners in one of the sessions when no
\* other key is alive, is cloned and deep-cloned, and the keys are dropped in
\* any order.
InitKeys == Init

NextKeys ==
  \/ \E s \in Sessions, a \in ListenersOf("b1"), tracked \in BOOLEAN : Live = {} /\ BufferKey_create_key("b1", s, a, tracked)
  \/ \E i \in KeySlots : BufferKey_clone(i)
  \/ \E i \in KeySlots : BufferKey_deep_clone(i)
  \/ \E i \in KeySlots : BufferKey_drop(i)

SpecKeys == InitKeys /\ [][NextKeys]_vars

\* A key of b1 made for one of its listeners, its clones and deep clones, and
\* the guards taken with them.
NextKeyUse ==
  \/ \E s \in Sessions, a \in ListenersOf("b1"), tracked \in BOOLEAN : Live = {} /\ BufferKey_create_key("b1", s, a, tracked)
  \/ \E i \in KeySlots : guard = << >> /\ commands = << >> /\ BufferKey_clone(i)
  \/ \E i \in KeySlots : guard = << >> /\ commands = << >> /\ BufferKey_deep_clone(i)
  \/ \E i \in KeySlots : keys[i] # << >> /\ commands = << >> /\ BufferAccessMut_get_mut(Tag(i))
  \/ BufferMut_pulse
  \/ BufferMut_drop
  \/ NotifyBufferUpdate_apply

SpecKeyUse == InitKeys /\ [][NextKeyUse]_vars

\* The access entry points: the query-scoped accessors, the World's fallback,
\* the gate and its guard, with a buffer entity that may lose its components
\* or be despawned.
AccessKeys == {BufferKey("b1", "s1", "L1")}

NextAccess ==
  \/ \E key \in AccessKeys : BufferAccessMut_get_mut(key)
  \/ \E key \in AccessKeys : World_buffer_mut(key)
  \/ World_buffer_mut_return
  \/ \E v \in ProtoValues : BufferMut_push(v)
  \/ BufferMut_pull
  \/ BufferMut_drop
  \/ NotifyBufferUpdate_apply
  \/ \E key \in AccessKeys, op \in ViewOps, i \in Idx : (op = "get" \/ i = 0) /\ BufferAccess_get(key, op, i)
  \/ \E key \in AccessKeys : BufferAccess_get_newest(key)
  \/ \E key \in AccessKeys, op \in ViewOps, i \in Idx : (op = "get" \/ i = 0) /\ World_buffer_view(key, op, i)
  \/ \E key \in AccessKeys : World_buffer_gate_view(key)
  \/ \E key \in AccessKeys, f \in GateOps : World_buffer_gate_mut(key, f)
  \/ \E key \in AccessKeys : BufferGateAccessMut_get_mut(key)
  \/ BufferGateMut_get
  \/ BufferGateMut_open_gate
  \/ BufferGateMut_close_gate
  \/ BufferGateMut_drop
  \/ \E key \in AccessKeys : World_despawn(key.buffer)
  \/ \E key \in AccessKeys, c \in Components : World_remove(key.buffer, c)

SpecAccess == Init /\ [][NextAccess]_vars


\* ================================================================ claims
\* a step that releases the live guard
Released == guard # << >> /\ guard' = << >>
\* the queue the live guard borrowed, before and after a step
GuardQueue == IF G.via = "query" THEN commands ELSE worldQ
GuardQueueAfter == IF G.via = "query" THEN commands' ELSE worldQ'
OtherQueuesKept == IF G.via = "query" THEN worldQ' = worldQ ELSE commands' = commands

\* C1: releasing a guard through which one or more mutating calls (pulse
\* included) were made appends exactly one notification, for the guard's
\* buffer and session, to the queue the guard borrowed, and nothing to any
\* other queue, however many mutating calls were made.
C1_ExactlyOneNotification ==
  [][(Released /\ G.mcalls >= 1) =>
       /\ Len(GuardQueueAfter) = Len(GuardQueue) + 1
       /\ SubSeq(GuardQueueAfter, 1, Len(GuardQueue)) = GuardQueue
       /\ Last(GuardQueueAfter).note.buffer = G.buffer
       /\ Last(GuardQueueAfter).note.session = G.session
       /\ OtherQueuesKept]_vars

\* a guard with two or more mutating calls was released and enqueued one notification
C1_Witness ==
  /\ released # << >>
  /\ released[1].g.mcalls >= 2
  /\ released[1].enq = 1

\* a step that is a read call on the live guard
ReadStep ==
  /\ guard # << >> /\ guard' # << >>
  /\ guard'[1].calls = G.calls + 1
  /\ guard'[1].mcalls = G.mcalls

\* C2: releasing a guard through which no mutating call and no pulse was made
\* enqueues nothing, whatever read calls were made; a read call leaves the
\* stored contents and the modified flag as they are.
C2_NoNotificationWithoutMutation ==
  [][/\ (Released /\ G.mcalls = 0) => (commands' = commands /\ worldQ' = worldQ)
     /\ ReadStep => (storage' = storage /\ guard'[1].modified = G.modified)]_vars

\* a guard with read calls only was released and enqueued nothing
C2_Witness ==
  /\ released # << >>
  /\ released[1].g.mcalls = 0
  /\ released[1].g.calls >= 1
  /\ ~released[1].g.modified
  /\ released[1].enq = 0

\* C3: the notification a modified guard enqueues at its release names the
\* buffer and the session of the key that created the guard, and excludes that
\* key's accessor, unless allow_closed_loops was called, and then nobody.
C3_NotificationNamesKey ==
  [][(Released /\ G.modified) =>
       /\ Len(GuardQueueAfter) = Len(GuardQueue) + 1
       /\ Last(GuardQueueAfter).note =
            [buffer |-> G.key.buffer, session |-> G.key.session,
             accessor |-> IF G.loops THEN None ELSE Some(G.key.accessor)]]_vars

\* the queue holds a notification excluding its key's accessor and one, of a
\* guard with closed loops allowed, excluding nobody
C3_Witness ==
  \E i, j \in 1..Len(commands) :
    /\ ~commands[i].loops
    /\ commands[i].note.accessor = Some(commands[i].src)
    /\ commands[j].loops
    /\ commands[j].note.accessor = None

C5_WorldNotificationApplied ==
  [][(worldActive /\ ~worldActive' /\ worldQ # << >>) =>
       /\ NotifyTargets(Head(worldQ).note) \subseteq woken'
       /\ lastDelivered' = << [cmd |-> Head(worldQ), woke |-> NotifyTargets(Head(worldQ).note)] >>]_vars

\* C6: listeners are woken only by the step that applies a queued notification,
\* taken while no guard is live and leaving the storage as it is; a
\* notification is queued only by the release of a guard, which wakes nobody.
C6_DeliveryOnlyAtFlush ==
  [][/\ (woken' # woken \/ lastDelivered' # lastDelivered) =>
          /\ guard = << >> /\ guard' = << >>
          /\ commands # << >>
          /\ lastDelivered' = << [cmd |-> Head(commands), woke |-> NotifyTargets(Head(commands).note)] >>
          /\ commands' = Tail(commands)
          /\ storage' = storage
     /\ (Len(commands') > Len(commands) \/ Len(worldQ') > Len(worldQ)) => Released
     /\ Released => (woken' = woken /\ lastDelivered' = lastDelivered /\ storage' = storage)]_vars

\* a notification was applied, waking a listener, after its guard was released
C6_Witness ==
  /\ lastDelivered # << >>
  /\ lastDelivered[1].woke # {}
  /\ guard = << >>
  /\ storage["b1"]["s1"] # << >>


\* ---- the observed session of the storage specification
ObsBuffer == "b2"
ObsSession == "s1"
ObsQ == storage[ObsBuffer][ObsSession]
ObsP == settings[ObsBuffer]
ObsH == hist[<<ObsBuffer, ObsSession>>]
\* the values pushed before the last push
PushedBefore == Front(ObsH.pushed)
\* how often x occurs in q
RECURSIVE Count(_, _)
Count(x, q) == IF q = << >> THEN 0 ELSE (IF Head(q) = x THEN 1 ELSE 0) + Count(x, Tail(q))

\* C7: under KeepLast(n), after pushes only, the session holds at most n
\* elements, namely the last n values pushed, oldest first; a push onto a full
\* session returned the element that was oldest (under KeepLast(0): the pushed
\* value itself, which is not stored), any other push returned None.
C7_KeepLast ==
  (ObsP.kind = "KeepLast" /\ ObsH.used = 0) =>
    /\ BufferStorage_count(ObsQ) <= ObsP.n
    /\ BufferStorage_iter(ObsQ) = LastN(ObsH.pushed, ObsP.n)
    /\ ret.op = "push" =>
         /\ ret.arg = Some(Last(ObsH.pushed))
         /\ ret.val = IF Len(PushedBefore) >= ObsP.n
                      THEN Some(Head(LastN(PushedBefore, ObsP.n) \o ret.arg))
                      ELSE None

\* the third push under KeepLast(2) evicted and returned the first value pushed
C7_Witness ==
  /\ ObsP = KeepLast(2)
  /\ ObsH.used = 0
  /\ ObsH.pushed = <<1, 2, 1>>
  /\ ret.op = "push"
  /\ ret.val = Some(1)
  /\ ObsQ = <<2, 1>>

\* C8: under KeepFirst(n), after pushes only, the session holds at most n
\* elements, namely the first n values pushed; a push onto a session that
\* already held n elements returned the value passed in and stored nothing, any
\* other push returned None.
C8_KeepFirst ==
  (ObsP.kind = "KeepFirst" /\ ObsH.used = 0) =>
    /\ BufferStorage_count(ObsQ) <= ObsP.n
    /\ BufferStorage_iter(ObsQ) = FirstN(ObsH.pushed, ObsP.n)
    /\ ret.op = "push" =>
         /\ ret.arg = Some(Last(ObsH.pushed))
         /\ ret.val = IF Len(PushedBefore) >= ObsP.n THEN ret.arg ELSE None
         /\ Len(PushedBefore) >= ObsP.n => ObsQ = FirstN(PushedBefore, ObsP.n)

\* the third push under KeepFirst(2) was rejected and handed back
C8_Witness ==
  /\ ObsP = KeepFirst(2)
  /\ ObsH.used = 0
  /\ ObsH.pushed = <<1, 2, 1>>
  /\ ret.op = "push"
  /\ ret.val = Some(1)
  /\ ObsQ = <<1, 2>>

\* C9: under KeepAll every push returned None and left its value as the
\* newest element; after push, pull, pull_newest and drain calls only, the
\* count is the number of pushes less the number of elements pulled or drained.
C9_KeepAll ==
  ObsP.kind = "KeepAll" =>
    /\ ret.op = "push" => (ret.val = None /\ BufferStorage_newest(ObsQ) = ret.arg)
    /\ ObsH.used <= 1 => BufferStorage_count(ObsQ) = Len(ObsH.pushed) - ObsH.removed

\* three pushes and two removals under KeepAll left one element
C9_Witness ==
  /\ ObsP.kind = "KeepAll"
  /\ ObsH.used = 1
  /\ Len(ObsH.pushed) = 3
  /\ ObsH.removed = 2
  /\ Len(ObsQ) = 1

\* a step that is a call `op` on the live guard of the observed session
ObsCall(op) == guard # << >> /\ guard' # << >> /\ ret'.op = op

\* C10: under KeepLast(n) and KeepFirst(n) a session never holds more than n
\* elements, whatever calls were made; a push_as_oldest that returns None put
\* its value at index 0 before the elements stored, and one that returns
\* Some(x) met a full session and x, with the elements stored afterwards, is
\* the value passed with the elements stored before: nothing is lost.
C10_PushAsOldest ==
  /\ [](ObsP.kind # "KeepAll" => \A b \in Buffers, s \in Sessions : Len(storage[b][s]) <= settings[b].n)
  /\ [][(ObsCall("push_as_oldest") /\ ObsP.kind # "KeepAll") =>
          LET v == ret'.arg[1]
              before == ObsQ
              after == ObsQ'
          IN /\ ret'.val = None => after = <<v>> \o before
             /\ ret'.val # None => Len(before) = ObsP.n
             /\ \A x \in Values \cup {T_default} : Count(x, after \o ret'.val) = Count(x, <<v>> \o before)]_vars

\* a push_as_oldest onto a full session displaced a stored element
C10_Witness ==
  /\ ObsP.kind # "KeepAll"
  /\ ret.op = "push_as_oldest"
  /\ ret.val # None
  /\ ret.val # ret.arg
  /\ Len(ObsQ) = ObsP.n
  /\ ObsQ[1] = ret.arg[1]

\* the values of an Option or a sequence
Elems(q) == {q[i] : i \in 1..Len(q)}
\* the calls whose result is a number or a boolean
CountOps == {"len", "is_empty"}

\* C11: with two sessions of one buffer that store different values, a call on
\* a guard or a view made from a session's key returns only values of that
\* session and counts only its elements, and a step taken while a guard is
\* live changes the contents of no session but the one of the guard's key.
C11_SessionIsolation ==
  /\ [](ret.op # "" =>
          IF ret.op \in CountOps
          THEN ret.op = "len" => ret.val[1] <= hist[<<G.key.buffer, G.key.session>>].added
          ELSE Elems(ret.val) \subseteq ValuesOf(G.key.session))
  /\ []((result.entry = "BufferAccess::get" /\ result.ok) =>
          IF result.op \in CountOps
          THEN (result.op = "len" /\ result.key[1].session = "s2") => result.val[1] <= hist[<<"b2", "s2">>].added
          ELSE Elems(result.val) \subseteq ValuesOf(result.key[1].session))
  /\ [][guard # << >> =>
          \A b \in Buffers, s \in Sessions :
            <<b, s>> # <<G.key.buffer, G.key.session>> => storage'[b][s] = storage[b][s]]_vars

\* a pull through the second session's key returned that session's value
\* while the first session held its own
C11_Witness ==
  /\ ret.op = "pull"
  /\ guard # << >>
  /\ G.key.session = "s2"
  /\ ret.val = Some(2)
  /\ storage["b2"]["s1"] # << >>
  /\ Elems(storage["b2"]["s1"]) = {1}

\* C12: pull removes and returns the element at index 0 and pull_newest the one
\* at the highest index; the count falls by one and the other elements keep
\* their order; on an empty session each returns None and leaves it empty; no
\* more elements are ever removed than were inserted.
C12_Pull ==
  /\ [](ObsH.removed <= ObsH.added)
  /\ [][/\ ObsCall("pull") =>
            IF ObsQ = << >> THEN ret'.val = None /\ ObsQ' = << >>
            ELSE /\ ret'.val = Some(ObsQ[1])
                 /\ Len(ObsQ') = Len(ObsQ) - 1
                 /\ \A i \in 1..Len(ObsQ') : ObsQ'[i] = ObsQ[i + 1]
        /\ ObsCall("pull_newest") =>
            IF ObsQ = << >> THEN ret'.val = None /\ ObsQ' = << >>
            ELSE /\ ret'.val = Some(ObsQ[Len(ObsQ)])
                 /\ Len(ObsQ') = Len(ObsQ) - 1
                 /\ \A i \in 1..Len(ObsQ') : ObsQ'[i] = ObsQ[i]]_vars

\* after the pushes 1, 2 a pull returned the oldest, 1, and left 2
C12_Witness ==
  /\ ObsP.kind = "KeepAll"
  /\ ObsH.pushed = <<1, 2>>
  /\ ObsH.added = 2
  /\ ObsH.removed = 1
  /\ ret.op = "pull"
  /\ ret.val = Some(1)
  /\ ObsQ = <<2>>

\* C13: drain(lo..hi) removes the elements at the indices lo <= i < hi that
\* exist and returns them oldest first; the others stay in their order, the
\* count falls by the number drained, and the retention limit holds afterwards.
C13_Drain ==
  [][ObsCall("drain") =>
       LET lo == Min2(ret'.arg[1], Len(ObsQ))
           hi == Min2(ret'.arg[2], Len(ObsQ))
           d == ret'.val
       IN /\ Len(d) = hi - lo
          /\ \A i \in 1..Len(d) : d[i] = ObsQ[lo + i]
          /\ Len(ObsQ') = Len(ObsQ) - Len(d)
          /\ \A i \in 1..Len(ObsQ') : ObsQ'[i] = IF i <= lo THEN ObsQ[i] ELSE ObsQ[i + Len(d)]
          /\ ObsP.kind # "KeepAll" => Len(ObsQ') <= ObsP.n]_vars

\* drain(1..2) of 1, 2, 1 returned the middle element and kept the other two
C13_Witness ==
  /\ ret.op = "drain"
  /\ ret.arg = <<1, 2>>
  /\ ret.val = <<2>>
  /\ ObsH.pushed = <<1, 2, 1>>
  /\ ObsH.removed = 1
  /\ ObsQ = <<1, 1>>

\* the observed session of the two-session specification
ClrBuffer == "b2"
ClrSession == "s2"
ClrH == hist[<<ClrBuffer, ClrSession>>]
\* what a call returns on a session in which nothing is stored
EmptyAnswer(op, val) ==
  CASE op = "len" -> val = Some(0)
    [] op = "is_empty" -> val = Some(TRUE)
    [] op \in {"iter", "oldest", "newest", "get", "pull", "pull_newest", "drain"} -> val = << >>
    [] OTHER -> TRUE

\* C14: the clear of a session leaves it with nothing stored and every other
\* session as it was; from then on, until something is stored again, every
\* call on a view or a guard of that session's key answers as on a session
\* that never stored anything (count 0, None from oldest, newest, get, pull).
C14_SessionClear ==
  /\ [][(result'.entry = "clear_session" /\ (result' # result \/ storage' # storage)) =>
          LET k == result'.key[1]
          IN /\ storage'[k.buffer][k.session] = << >>
             /\ \A b \in Buffers, s \in Sessions : <<b, s>> # <<k.buffer, k.session>> => storage'[b][s] = storage[b][s]]_vars
  /\ []((ClrH.cleared /\ ClrH.added = 0) =>
          /\ storage[ClrBuffer][ClrSession] = << >>
          /\ (ret.op # "" /\ G.key.session = ClrSession) => EmptyAnswer(ret.op, ret.val)
          /\ (result.entry = "BufferAccess::get" /\ result.key[1].session = ClrSession) =>
                (result.ok /\ EmptyAnswer(result.op, result.val)))

\* after a clear that dropped an element of the observed session, its count
\* was read as 0 while the other session still held its own
C14_Witness ==
  /\ ClrH.cleared
  /\ ClrH.dropped >= 1
  /\ ClrH.added = 0
  /\ result.entry = "BufferAccess::get"
  /\ result.key[1].session = ClrSession
  /\ result.op = "len"
  /\ result.val = Some(0)
  /\ storage[ClrBuffer]["s1"] # << >>

\* the World's entry points, and the component each resolves the key against
WorldEntries == {"World::buffer_view", "World::buffer_mut", "World::buffer_gate_view", "World::buffer_gate_mut"}
QueryEntries == {"BufferAccess::get", "BufferAccessMut::get_mut"}
Needs(entry) == IF entry \in {"World::buffer_gate_view", "World::buffer_gate_mut"} THEN "GateState" ELSE "BufferStorage"
\* a step in which the entry point `entry` returned (a repeated call that
\* returns the same again and changes nothing is no step at all)
Returned(entry) == result'.entry = entry /\ result' # result
\* everything but the returned value, and the observations of the guards, is as before
NothingElseChanges == UNCHANGED <<settings, storage, guard, commands, worldActive, worldQ, woken, lastDelivered, entities, gate, gguard>>

\* C15: a call of a World entry point with a key whose buffer entity is gone,
\* or lacks the component the entry point needs, returns BufferMissing and
\* changes nothing: no guard is made for the callback, nothing is enqueued,
\* storage and gates stay as they are; a guard of buffer_mut is handed to a
\* callback only where the key resolved.
C15_WorldBufferMissing ==
  [][/\ \A e \in WorldEntries :
          (Returned(e) /\ ~HasComponent(result'.key[1].buffer, Needs(e))) =>
             /\ ~result'.ok
             /\ result'.err = "BufferMissing"
             /\ NothingElseChanges
     /\ (~worldActive /\ worldActive') =>
          /\ guard' # << >>
          /\ HasComponent(guard'[1].buffer, "BufferStorage")
          /\ result'.ok]_vars

\* buffer_mut returned BufferMissing for a buffer entity that lost its storage
\* component while a notification was queued
C15_Witness ==
  /\ entities["b1"].exists
  /\ "BufferStorage" \notin entities["b1"].comps
  /\ result.entry = "World::buffer_mut"
  /\ result.err = "BufferMissing"
  /\ commands # << >>

C17_AbsenceIsNone ==
  [][/\ \A e \in {"BufferAccess::get", "World::buffer_view"} :
          (Returned(e) /\ result'.ok) =>
             LET k == result'.key[1]
                 q == storage[k.buffer][k.session]
             IN /\ result'.op = "get" =>
                     result'.val = IF result'.arg[1] >= Len(q) THEN None ELSE Some(q[result'.arg[1] + 1])
                /\ (result'.op \in {"oldest", "newest"} /\ q = << >>) => result'.val = None
                /\ NothingElseChanges
     /\ Returned("BufferAccess::get_newest") =>
          LET k == result'.key[1]
              q == storage[k.buffer][k.session]
          IN /\ result'.ok
             /\ result'.val = IF ~HasComponent(k.buffer, "BufferStorage") \/ q = << >> THEN None ELSE Some(q[Len(q)])
             /\ NothingElseChanges]_vars

\* get_newest returned None for a key whose buffer entity was despawned
C17_Witness ==
  /\ ~entities["b1"].exists
  /\ result.entry = "BufferAccess::get_newest"
  /\ result.ok
  /\ result.val = None

\* a step in which a call was made on the live gate guard
GateGuardStep == gguard # << >> /\ gguard' # << >>
\* every gate but the one of (b, s) is as before
OtherGatesKept(b, s) == \A c \in Buffers, t \in Sessions : <<c, t>> # <<b, s>> => gate'[c][t] = gate[c][t]

\* C18: every gate starts Open and is Open or Closed at all times; through a
\* gate guard or the World's buffer_gate_mut, close_gate() leaves the gate of
\* the key's session Closed and open_gate() leaves it Open, whatever it was
\* before; get() and the World's gate view return the gate as it is; no such
\* call touches another gate or what is stored.
C18_GateTwoStates ==
  /\ gate = AllOpen
  /\ [](\A b \in Buffers, s \in Sessions : gate[b][s] \in {"Open", "Closed"})
  /\ [][/\ (GateGuardStep /\ gguard'[1].closed = GG.closed + 1) =>
             (gate'[GG.key.buffer][GG.key.session] = "Closed" /\ OtherGatesKept(GG.key.buffer, GG.key.session) /\ storage' = storage)
        /\ (GateGuardStep /\ gguard'[1].opened = GG.opened + 1) =>
             (gate'[GG.key.buffer][GG.key.session] = "Open" /\ OtherGatesKept(GG.key.buffer, GG.key.session) /\ storage' = storage)
        /\ Returned("BufferGateMut::get") =>
             (result'.val = Some(gate[GG.key.buffer][GG.key.session]) /\ gate' = gate /\ storage' = storage)
        /\ (Returned("World::buffer_gate_view") /\ result'.ok) =>
             (result'.val = Some(gate[result'.key[1].buffer][result'.key[1].session]) /\ gate' = gate /\ storage' = storage)
        /\ (Returned("World::buffer_gate_mut") /\ result'.ok) =>
             LET k == result'.key[1]
             IN /\ result'.op = "close_gate" => gate'[k.buffer][k.session] = "Closed"
                /\ result'.op = "open_gate" => gate'[k.buffer][k.session] = "Open"
                /\ result'.op = "get" => gate' = gate
                /\ result'.val = Some(gate'[k.buffer][k.session])
                /\ OtherGatesKept(k.buffer, k.session)
                /\ storage' = storage]_vars

\* after the gate was closed the World's gate view read Closed, with a value
\* stored
C18_Witness ==
  /\ gate["b1"]["s1"] = "Closed"
  /\ result.entry = "World::buffer_gate_view"
  /\ result.val = Some("Closed")
  /\ storage["b1"]["s1"] # << >>

\* a step that releases the live gate guard
GateReleased == gguard # << >> /\ gguard' = << >>
\* a step that is a call of open_gate, close_gate or get on the live gate guard
GateCall == GateGuardStep /\ (gguard' # gguard \/ Returned("BufferGateMut::get"))

LoopResult == IF flow.request >= LoopBound THEN flow.request ELSE LoopBound

\* C20: in the gate loop the notifications of the listener's own pull and of
\* its own opening of the gate never wake that listener; the service never
\* runs on an empty buffer or an open gate, it has run once for every value
\* pushed but the one still stored, and the workflow ends, after one run per
\* value pushed, with the first value that reaches the bound.
C20_GateLoop ==
  /\ [](/\ ~flow.panicked
        /\ flow.runs <= flow.pushes
        /\ flow.pushes <= flow.runs + 1
        /\ flow.runs + Len(storage["b1"]["s1"]) = flow.pushes
        /\ (lastDelivered # << >> /\ lastDelivered[1].cmd.src = "L1") => "L1" \notin lastDelivered[1].woke
        /\ flow.out # None => (flow.out = Some(LoopResult) /\ flow.runs = flow.pushes /\ flow.runs = LoopResult - flow.request + 1))
  /\ <>(flow.out # None)

\* the request 0 ended with 5 after six runs of the service, the notifications
\* of the last run applied
C20_Witness ==
  /\ flow.request = 0
  /\ flow.out = Some(LoopBound)
  /\ flow.runs = LoopBound + 1
  /\ flow.pushes = LoopBound + 1
  /\ commands = << >>
  /\ lastDelivered # << >>
  /\ lastDelivered[1].cmd.src = "L1"
  /\ lastDelivered[1].woke = {"L2"}

\* C24: pulse leaves the stored contents of every session and every gate as
\* they are and sets the guard's modified flag; a guard through which nothing
\* but pulse was called enqueues at its release exactly one notification,
\* carrying the buffer, the session and the excluded accessor of its key, as
\* the notification of a guard that changed the data does.
C24_PulseOnly ==
  [][/\ ObsCall("pulse") => (storage' = storage /\ gate' = gate /\ settings' = settings /\ guard'[1].modified /\ ret'.val = None)
     /\ (Released /\ G.modified /\ ObsH = NoHist) =>
          /\ ObsQ = << >> /\ ObsQ' = << >>
          /\ Len(commands') = Len(commands) + 1
          /\ SubSeq(commands', 1, Len(commands)) = commands
          /\ Last(commands').note = [buffer |-> G.key.buffer, session |-> G.key.session, accessor |-> Some(G.key.accessor)]
          /\ worldQ' = worldQ]_vars

\* a guard through which only pulse was called was released, and its
\* notification is the one queued
C24_Witness ==
  /\ released # << >>
  /\ released[1].g.modified
  /\ released[1].enq = 1
  /\ ObsH = NoHist
  /\ Len(commands) = 1
  /\ commands[1].note = [buffer |-> ObsBuffer, session |-> ObsSession, accessor |-> Some("N")]

\* the observed session's policy can retain nothing
CapacityZero == ObsP.kind # "KeepAll" /\ ObsP.n = 0
\* a step that is a newest_mut_or_else or a newest_mut_or_default on the
\* observed session, and the value its f produces
OrElseCall == ObsCall("newest_mut_or_else") \/ ObsCall("newest_mut_or_default")
OrElseValue == IF ret'.op = "newest_mut_or_else" THEN ret'.arg[1] ELSE T_default

C26_ZeroCapacity ==
  /\ [](CapacityZero => \A b \in Buffers, s \in Sessions : storage[b][s] = << >>)
  /\ [][(OrElseCall /\ CapacityZero) => (ret'.val = None /\ ObsQ' = << >> /\ storage' = storage)]_vars

\* newest_mut_or_default was called under a policy of capacity zero and gave None
C26_Witness ==
  /\ CapacityZero
  /\ ret.op = "newest_mut_or_default"
  /\ ret.val = None
  /\ ObsQ = << >>
  /\ guard # << >> /\ guard[1].modified

\* the mutating calls that may find nothing to change
NoopOps == {"pull", "pull_newest", "get_mut", "oldest_mut", "newest_mut", "iter_mut", "drain"}
\* the call recorded in ret' met nothing to change in the session q
FindsNothing(q) ==
  CASE ret'.op \in {"pull", "pull_newest", "oldest_mut", "newest_mut", "iter_mut"} -> q = << >>
    [] ret'.op = "get_mut" -> ret'.arg[1] >= Len(q)
    [] ret'.op = "drain" -> ret'.arg[1] = ret'.arg[2] \/ ret'.arg[1] >= Len(q)
    [] OTHER -> FALSE
\* nothing was ever stored in the observed session
NeverStored == ObsH.pushed = << >> /\ ObsH.added = 0

\* C27: a pull or pull_newest on an empty session, a get_mut with an index out
\* of range, an oldest_mut, newest_mut or iter_mut on an empty session, and a
\* drain of an empty range change nothing in the storage and return nothing,
\* yet set the guard's modified flag; a guard modified by such calls alone
\* enqueues exactly one notification at its release, the session being as it
\* was when the guard was created.
C27_NoopStillNotifies ==
  [][/\ (\E op \in NoopOps : ObsCall(op) /\ FindsNothing(ObsQ)) =>
          (storage' = storage /\ ret'.val = << >> /\ guard'[1].modified /\ commands' = commands)
     /\ (Released /\ G.modified /\ NeverStored) =>
          /\ ObsQ = << >> /\ ObsQ' = << >>
          /\ Len(commands') = Len(commands) + 1
          /\ SubSeq(commands', 1, Len(commands)) = commands
          /\ Last(commands').note = [buffer |-> G.key.buffer, session |-> G.key.session, accessor |-> Some(G.key.accessor)]]_vars

\* a guard was released after mutating calls on a session in which nothing
\* was ever stored, and its notification is queued
C27_Witness ==
  /\ released # << >>
  /\ released[1].g.modified
  /\ released[1].enq = 1
  /\ NeverStored
  /\ ObsH.used = 2
  /\ ObsQ = << >>
  /\ Len(commands) = 1

\* a step that is allow_closed_loops on the live guard
AllowStep == guard # << >> /\ guard' # << >> /\ ~G.loops /\ guard'[1].loops

\* C28: allow_closed_loops clears the guard's accessor and nothing else: the
\* modified flag, the guard's buffer and session, the queues, the storage and
\* the listeners woken are as before, and the guard stays live; no later call
\* brings the accessor back.  So a guard with closed loops allowed enqueues
\* at its release one notification excluding nobody when a mutating call was
\* made before or after, and nothing when none was made.
C28_AllowClosedLoopsOnly ==
  [][/\ AllowStep =>
          /\ guard'[1] = [G EXCEPT !.accessor = None, !.loops = TRUE]
          /\ commands' = commands /\ worldQ' = worldQ
          /\ storage' = storage /\ woken' = woken /\ lastDelivered' = lastDelivered
     /\ (guard # << >> /\ guard' # << >> /\ G.loops) => (guard'[1].loops /\ guard'[1].accessor = None)
     /\ (Released /\ G.loops /\ G.mcalls >= 1) =>
          /\ Len(GuardQueueAfter) = Len(GuardQueue) + 1
          /\ SubSeq(GuardQueueAfter, 1, Len(GuardQueue)) = GuardQueue
          /\ Last(GuardQueueAfter).note = [buffer |-> G.key.buffer, session |-> G.key.session, accessor |-> None]
          /\ OtherQueuesKept
     /\ (Released /\ G.loops /\ G.mcalls = 0) => (commands' = commands /\ worldQ' = worldQ)]_vars

\* a listener's guard with closed loops allowed and no other call was released
\* and enqueued nothing, after a guard with closed loops allowed and a mutating
\* call had enqueued a notification that excludes nobody
C28_Witness ==
  /\ released # << >>
  /\ released[1].g.loops
  /\ released[1].g.key.accessor = "L1"
  /\ released[1].g.calls = 0
  /\ ~released[1].g.modified
  /\ released[1].enq = 0
  /\ Len(commands) = 1
  /\ commands[1].loops
  /\ commands[1].src = "L1"
  /\ commands[1].note.accessor = None

\* the notifications of a queue, in its order
Notes(q) == [i \in 1..Len(q) |-> q[i].note]

\* C29: at most one guard is live at any time, and a live guard is never
\* replaced by another; taking a guard adds nothing to a queue, and every
\* release appends to the end of the queue the guard borrowed the guard's own
\* notification (its buffer, session and accessor) when it was modified and
\* nothing when it was not, the notifications queued before staying as they
\* are and in their order: the queue holds one notification per modified
\* guard, in the order of the releases.
C29_ReleaseOrder ==
  /\ [](Len(guard) <= 1)
  /\ [][/\ (guard # << >> /\ guard' # << >>) => (guard'[1].key = G.key /\ guard'[1].via = G.via /\ commands' = commands /\ worldQ' = worldQ)
        /\ (guard = << >> /\ guard' # << >>) => (commands' = commands /\ ~guard'[1].modified)
        /\ Released =>
             /\ Notes(GuardQueueAfter) = Notes(GuardQueue) \o
                  (IF G.modified THEN << [buffer |-> G.buffer, session |-> G.session, accessor |-> G.accessor] >> ELSE << >>)
             /\ SubSeq(GuardQueueAfter, 1, Len(GuardQueue)) = GuardQueue
             /\ OtherQueuesKept]_vars

\* two guards of different keys were released one after the other, both
\* modified: the queue holds the first guard's notification before the second's
C29_Witness ==
  /\ Len(commands) = 2
  /\ commands[1].note = [buffer |-> "b1", session |-> "s1", accessor |-> Some("L1")]
  /\ commands[2].note = [buffer |-> "b2", session |-> "s2", accessor |-> Some("N")]
  /\ released # << >>
  /\ released[1].g.key = BufferKey("b2", "s2", "N")
  /\ released[1].enq = 1

\* the live keys of one family: a created or deep-cloned key and its plain clones
SameFamily(i, j) == i \in Live /\ j \in Live /\ Tag(i).family = Tag(j).family
\* the number of live keys that hold the handle h
Holders(h) == Cardinality({i \in Live : Tag(i).lifecycle = Some(h)})
\* a step that drops the key of slot i
DropStep(i) == keys[i] # << >> /\ keys'[i] = << >> /\ \A j \in KeySlots \ {i} : keys'[j] = keys[j]
\* a step that makes a key in slot j
MakeStep(j) == keys[j] = << >> /\ keys'[j] # << >>

\* C23: a key and its plain clones hold the same lifecycle handle and report
\* the same is_in_use(); a deep clone has the buffer and the session of its
\* source and a handle no other family holds; the count of a handle is the
\* number of live keys holding it, so that dropping a key changes neither the
\* handle of a key of another family nor how many hold it, and releases the
\* handle of its own family only when it was the last of that family.
C23_CloneAndDeepClone ==
  /\ [](\A i \in Live, j \in Live :
          /\ SameFamily(i, j) => (Tag(i).lifecycle = Tag(j).lifecycle /\ BufferKeyTag_is_in_use(Tag(i)) = BufferKeyTag_is_in_use(Tag(j)))
          /\ (~SameFamily(i, j) /\ Tag(i).lifecycle # None) => Tag(i).lifecycle # Tag(j).lifecycle)
  /\ [](\A h \in Handles : arcs[h] = Holders(h))
  /\ [][\A i \in KeySlots :
          /\ (MakeStep(i) /\ keys'[i][1].how = "deep_clone") =>
               \E s \in Live : /\ keys'[i][1].buffer = Tag(s).buffer /\ keys'[i][1].session = Tag(s).session
                               /\ (keys'[i][1].lifecycle = None) = (Tag(s).lifecycle = None)
                               /\ keys'[i][1].lifecycle # None => arcs[keys'[i][1].lifecycle[1]] = 0
                               /\ \A h \in Handles : arcs[h] > 0 => arcs'[h] = arcs[h]
          /\ DropStep(i) =>
               \A j \in Live \ {i} :
                 /\ keys'[j] = keys[j]
                 /\ Tag(j).lifecycle # None =>
                      /\ arcs'[Tag(j).lifecycle[1]] > 0
                      /\ ~SameFamily(i, j) => arcs'[Tag(j).lifecycle[1]] = arcs[Tag(j).lifecycle[1]]]_vars

\* a key, its plain clone sharing handle 1, and then its deep clone with
\* handle 2 were made; the first two have been dropped and released handle 1;
\* the deep clone lives on with handle 2, held by it alone
C23_Witness ==
  /\ keys[1] = << >> /\ keys[2] = << >>
  /\ keys[3] # << >>
  /\ Tag(3).how = "deep_clone"
  /\ Tag(3).lifecycle = Some(2)
  /\ \A h \in Handles : arcs[h] = IF h = 2 THEN 1 ELSE 0
  /\ BufferKeyTag_is_in_use(Tag(3))

\* the identity a key carries
Identity(tag) == <<tag.buffer, tag.session, tag.accessor>>

\* C30: a clone and a deep clone carry the buffer, the session and the
\* accessor of the key they were made from; a guard taken with any of these
\* keys enqueues, when modified, the notification of that buffer and session
\* that excludes that accessor, and its delivery wakes the other listeners of
\* the buffer only; a key without a lifecycle handle reports is_in_use()
\* false, and its deep clone has no handle either and allocates none.
C30_ClonesKeepIdentity ==
  /\ [](\A i \in Live : Tag(i).lifecycle = None => ~BufferKeyTag_is_in_use(Tag(i)))
  /\ [](lastDelivered # << >> =>
          (lastDelivered[1].woke = ListenersOf(lastDelivered[1].cmd.note.buffer) \ {lastDelivered[1].cmd.src}
           /\ lastDelivered[1].cmd.src \notin woken))
  /\ [][/\ \A j \in KeySlots : (MakeStep(j) /\ keys'[j][1].how # "create_key") =>
             /\ \A s \in Live : Identity(keys'[j][1]) = Identity(Tag(s))
             /\ \A s \in Live : (keys'[j][1].lifecycle = None) = (Tag(s).lifecycle = None)
             /\ keys'[j][1].lifecycle = None => arcs' = arcs
        /\ (Released /\ G.modified) =>
             /\ G.key \in {Tag(i) : i \in Live}
             /\ commands' = commands \o << [note |-> [buffer |-> G.key.buffer, session |-> G.key.session, accessor |-> Some(G.key.accessor)],
                                           src |-> G.key.accessor, loops |-> FALSE, by |-> "BufferMut"] >>]_vars

\* a guard taken with the deep clone of a key of listener L1 that has no
\* lifecycle handle was released modified: its notification excludes L1, and
\* the deep clone reports is_in_use() false
C30_Witness ==
  /\ released # << >>
  /\ released[1].enq = 1
  /\ released[1].g.key.how = "deep_clone"
  /\ released[1].g.key.accessor = "L1"
  /\ released[1].g.key.lifecycle = None
  /\ ~BufferKeyTag_is_in_use(released[1].g.key)
  /\ commands = << [note |-> [buffer |-> "b1", session |-> released[1].g.key.session, accessor |-> Some("L1")],
                    src |-> "L1", loops |-> FALSE, by |-> "BufferMut"] >>
  /\ \E i \in Live : Tag(i).how = "create_key" /\ Identity(Tag(i)) = Identity(released[1].g.key)

\* C21: in the closed loop every run of the service was woken by a mutation
\* of the buffer; its own pull wakes the listener of the key it used; the
\* first run pulls the request, the second finds the buffer empty and ends
\* the workflow with 0, after one push and two runs, whatever the request.
C21_ClosedLoop ==
  /\ [](/\ ~flow.panicked
        /\ flow.runs <= 2
        /\ flow.pushes <= 1
        /\ (lastDelivered # << >> /\ lastDelivered[1].cmd.src = "L1") => (lastDelivered[1].cmd.loops /\ "L1" \in lastDelivered[1].woke)
        /\ flow.runs >= 1 => flow.seen[1] = Some(flow.request)
        /\ flow.out # None => (flow.out = Some(0) /\ flow.runs = 2 /\ flow.pushes = 1 /\ flow.seen = <<Some(flow.request), None>>))
  /\ <>(flow.out # None)

\* the request 3 of the test ended with 0: the first run pulled 3, its own
\* notification woke the listener, the second run found nothing, and the 4
\* held by the delay node was discarded with the session
C21_Witness ==
  /\ flow.request = 3
  /\ flow.out = Some(0)
  /\ flow.seen = <<Some(3), None>>
  /\ flow.delay = None
  /\ flow.pushes = 1
  /\ commands = << >>
  /\ lastDelivered # << >>
  /\ lastDelivered[1].cmd.src = "L1"
  /\ "L1" \in lastDelivered[1].woke

====
